---- MODULE Spec2Model ----
\* A state-machine model of the TimeTrack multi-tenant back end (src/backend):
\* the relational tables, the JWT route guard, the timeclock, storage-quota,
\* inventory-history and store operations.
\*
\* Conventions
\*   - time is counted in minutes since the UTC midnight of day 0;
\*   - a nullable column holds <<>> (NULL) or <<v>>; a nullable string column
\*     holds "" for NULL; a face image is represented by the length of its
\*     base64 text, 0 standing for "no image" (both are falsy in the code);
\*   - tenant id 0 stands for "no tenant id" (None; falsy like 0 in the code);
\*   - `resp` is the response of the last request together with what the
\*     request was, `g` the request context the route guard left behind.
EXTENDS Integers, Sequences, FiniteSets, TLC

VARIABLES tenants, managers, stores, employees, inventory, inventory_history,
          timeclock, eod, next_id, now, tokens, g, resp

dbVars == <<tenants, managers, stores, employees, inventory, inventory_history,
            timeclock, eod, next_id>>
vars == <<tenants, managers, stores, employees, inventory, inventory_history,
          timeclock, eod, next_id, now, tokens, g, resp>>

\* ---------------------------------------------------------------- bounds
MaxNow == 1700
MaxTokens == 1
MaxEntries == 2
MaxStores == 2
MaxSnapshots == 3
MaxEod == 1
MaxInventory == 22
MaxTenants == 2
MaxManagers == 3
MaxItems == 4

AuthSteps == {1440}
ClockSteps == {250}
TenantIds == {1, 2}
Passwords == {"Pw1!", "Pw2!"}

NULL == <<>>

Min(S) == CHOOSE x \in S : \A y \in S : x <= y
Max(S) == CHOOSE x \in S : \A y \in S : x >= y

\* ------------------------------------------------------- passwords (models.py)
hash_password(password) == <<"$2b$", password>>

verify_password(password, hashed) ==
    /\ password # ""
    /\ hashed # NULL
    /\ hashed[1] \in {"$2b$", "$2a$"}
    /\ hashed[2] = password

\* ------------------------------------------------------------ tokens (auth.py)
get_jwt_secret == "SECRET_KEY"
AttackerKey == "attacker-key"
expires_in_hours == 24

\* HS256 as an ideal MAC: the signature determines the key and the signed payload.
HS256(payload, key) == [key |-> key, msg |-> payload]

NoUser == [role |-> "", tenant_id |-> 0, username |-> "", is_super_admin |-> FALSE,
           exp |-> 0, iat |-> 0]
NoToken == [present |-> FALSE, payload |-> NoUser, sig |-> HS256(NoUser, "")]

generate_token(user_data) ==
    LET payload == [role |-> user_data.role, tenant_id |-> user_data.tenant_id,
                    username |-> user_data.username,
                    is_super_admin |-> user_data.is_super_admin,
                    exp |-> now + expires_in_hours * 60, iat |-> now]
    IN [present |-> TRUE, payload |-> payload, sig |-> HS256(payload, get_jwt_secret)]

\* jwt.decode: the signature must be the HS256 of the payload under the secret,
\* and PyJWT raises ExpiredSignatureError once exp <= now.
verify_token_ignoring_exp(token) ==
    IF token.sig # HS256(token.payload, get_jwt_secret) THEN NoUser
    ELSE token.payload

verify_token(token) ==
    IF token.sig # HS256(token.payload, get_jwt_secret) THEN NoUser
    ELSE IF token.payload.exp <= now THEN NoUser
    ELSE token.payload

\* The tokens a client can put in the Authorization / X-Auth-Token header: none,
\* an issued one, an issued one with an edited payload (the signature no longer
\* matches), or a payload signed with a key that is not the server's.
TamperedRole(token) ==
    [token EXCEPT !.payload.role =
        IF token.payload.role = "super-admin" THEN "manager" ELSE "super-admin"]
Forged(token) == [token EXCEPT !.sig = HS256(token.payload, AttackerKey)]
get_auth_token ==
    {NoToken} \cup tokens
      \cup {TamperedRole(t) : t \in tokens}
      \cup {Forged(t) : t \in tokens}

\* The request context after the guard: auth.py:95 is the only assignment to g
\* in the source; g.tenant_id is never assigned.
NoContext == [current_user |-> NoUser, has_tenant_id |-> FALSE, tenant_id |-> 0]

require_auth_any_role(roles, token) ==
    IF ~token.present THEN [status |-> 401, g |-> NoContext]
    ELSE LET user_data == verify_token(token) IN
         IF user_data = NoUser THEN [status |-> 401, g |-> NoContext]
         ELSE [status |-> 200,
               g |-> [current_user |-> user_data, has_tenant_id |-> FALSE, tenant_id |-> 0]]

require_auth(roles, token) ==
    IF ~token.present THEN [status |-> 401, g |-> NoContext]
    ELSE LET user_data == verify_token(token) IN
         IF user_data = NoUser THEN [status |-> 401, g |-> NoContext]
         ELSE IF roles # {} /\ user_data.role \notin roles
              THEN [status |-> 403, g |-> NoContext]
         ELSE [status |-> 200,
               g |-> [current_user |-> user_data, has_tenant_id |-> FALSE, tenant_id |-> 0]]

\* What a handler obtains from `tenant_id = g.tenant_id`.  The source holds no
\* assignment to g.tenant_id; the handlers are modelled with the value the
\* design gives it: the tenant_id claim of the verified token.
ContextTenantId(ctx) == ctx.current_user.tenant_id

\* ------------------------------------------------------------ rows (models.py)
plan_limits(plan) ==
    CASE plan = "basic" -> 1073741824
      [] plan = "standard" -> 10 * 1073741824
      [] plan = "premium" -> 100 * 1073741824
      [] OTHER -> 1073741824

TenantRow(id, email, plan, status, used) ==
    [id |-> id, email |-> email, plan |-> plan, status |-> status,
     max_storage_bytes |-> plan_limits(plan), used_storage_bytes |-> used,
     stripe_customer_id |-> "", stripe_subscription_id |-> ""]

ManagerRow(id, tenant_id, username, password, is_super_admin) ==
    [id |-> id, tenant_id |-> tenant_id, username |-> username,
     password |-> hash_password(password), is_super_admin |-> is_super_admin]

StoreRow(id, tenant_id, name, username, password, manager_username, allowed_ip) ==
    [id |-> id, tenant_id |-> tenant_id, name |-> name, username |-> username,
     password |-> hash_password(password), manager_username |-> manager_username,
     allowed_ip |-> allowed_ip]

EmployeeRow(id, tenant_id, store_id, name, descriptors, image) ==
    [id |-> id, tenant_id |-> tenant_id, store_id |-> store_id, name |-> name,
     face_registered |-> descriptors # <<>>, face_descriptor |-> NULL,
     face_descriptors |-> descriptors, face_image |-> image]

\* ----------------------------------------------------------- queries (models.py)
\* `if tenant_id:` -- a falsy tenant id applies no tenant filter.
get_all_managers(tenant_id) ==
    {m \in managers : tenant_id = 0 \/ m.tenant_id = tenant_id}

\* The rows among which query.first() picks.
get_manager_by_username(username, tenant_id) ==
    {m \in managers : m.username = username /\ (tenant_id = 0 \/ m.tenant_id = tenant_id)}

get_store_by_username(username, tenant_id) ==
    {s \in stores : s.username = username /\ (tenant_id = 0 \/ s.tenant_id = tenant_id)}

get_stores(tenant_id, manager_username) ==
    {s \in stores : /\ (tenant_id = 0 \/ s.tenant_id = tenant_id)
                    /\ (manager_username = "" \/ s.manager_username = manager_username)}

get_employees(tenant_id, store_id) ==
    {e \in employees : /\ (tenant_id = 0 \/ e.tenant_id = tenant_id)
                       /\ (store_id = "" \/ e.store_id = store_id)}

Tenant_query_get(tenant_id) == {t \in tenants : t.id = tenant_id}

\* ------------------------------------------------------------------ responses
Respond(op, token, guarded, roles, status, ran, touched, arg, out) ==
    resp' = [op |-> op, token |-> token, guarded |-> guarded, roles |-> roles,
             status |-> status, ran |-> ran, at |-> now, touched |-> touched,
             arg |-> arg, out |-> out]

NoResp == [op |-> "init", token |-> NoToken, guarded |-> FALSE, roles |-> {},
           status |-> 0, ran |-> FALSE, at |-> 0, touched |-> {},
           arg |-> <<>>, out |-> <<>>]

\* The guard turned the request away: the handler body does not run.
Denied(op, token, roles, a) ==
    /\ a.status # 200
    /\ g' = a.g
    /\ Respond(op, token, TRUE, roles, a.status, FALSE, {}, <<>>, <<>>)
    /\ UNCHANGED <<dbVars, now, tokens>>

\* A handler that ends without touching the database.
Reply(op, token, guarded, roles, status, touched, arg, out) ==
    /\ Respond(op, token, guarded, roles, status, TRUE, touched, arg, out)
    /\ UNCHANGED <<dbVars, now, tokens>>

Tick(steps) ==
    /\ \E d \in steps : now + d <= MaxNow /\ now' = now + d
    /\ g' = NoContext
    /\ resp' = NoResp
    /\ UNCHANGED <<dbVars, tokens>>

\* ------------------------------------------------------- logins (stores.py, managers.py)
Issue(token) ==
    /\ token \in tokens \/ Cardinality(tokens) < MaxTokens
    /\ tokens' = tokens \cup {token}

store_login(username, password, client_ip) ==
    /\ g' = NoContext
    /\ UNCHANGED <<dbVars, now>>
    /\ IF get_store_by_username(username, 0) = {}
       THEN /\ Respond("store_login", NoToken, FALSE, {}, 401, TRUE, {}, <<username>>, <<>>)
            /\ UNCHANGED tokens
       ELSE \E store \in get_store_by_username(username, 0) :
            IF ~verify_password(password, store.password)
            THEN /\ Respond("store_login", NoToken, FALSE, {}, 401, TRUE, {}, <<username>>, <<>>)
                 /\ UNCHANGED tokens
            ELSE IF store.allowed_ip # "" /\ client_ip # store.allowed_ip
            THEN /\ Respond("store_login", NoToken, FALSE, {}, 403, TRUE, {}, <<username>>, <<>>)
                 /\ UNCHANGED tokens
            ELSE LET token == generate_token([role |-> "store", tenant_id |-> store.tenant_id,
                                              username |-> username, is_super_admin |-> FALSE])
                 IN /\ Issue(token)
                    /\ Respond("store_login", NoToken, FALSE, {}, 200, TRUE, {store.tenant_id},
                               <<username>>, <<token, store.id>>)

manager_login(username, password) ==
    /\ g' = NoContext
    /\ UNCHANGED <<dbVars, now>>
    /\ IF get_manager_by_username(username, 0) = {}
       THEN /\ Respond("manager_login", NoToken, FALSE, {}, 401, TRUE, {}, <<username>>, <<>>)
            /\ UNCHANGED tokens
       ELSE \E manager \in get_manager_by_username(username, 0) :
            IF ~verify_password(password, manager.password)
            THEN /\ Respond("manager_login", NoToken, FALSE, {}, 401, TRUE, {}, <<username>>, <<>>)
                 /\ UNCHANGED tokens
            ELSE IF \E t \in Tenant_query_get(manager.tenant_id) : t.status # "active"
            THEN /\ Respond("manager_login", NoToken, FALSE, {}, 403, TRUE, {}, <<username>>, <<>>)
                 /\ UNCHANGED tokens
            ELSE LET token == generate_token(
                        [role |-> IF manager.is_super_admin THEN "super-admin" ELSE "manager",
                         tenant_id |-> manager.tenant_id, username |-> username,
                         is_super_admin |-> manager.is_super_admin])
                 IN /\ Issue(token)
                    /\ Respond("manager_login", NoToken, FALSE, {}, 200, TRUE,
                               {manager.tenant_id}, <<username>>, <<token, manager.id>>)

LoginOps == {"store_login", "manager_login"}

\* super_admin_login: the credentials come from Config (config.py:62-63); the
\* token carries no tenant_id.
SUPER_ADMIN_USERNAME == "superadmin"
SUPER_ADMIN_PASSWORD == "superadmin123"

super_admin_login(username, password) ==
    /\ g' = NoContext
    /\ UNCHANGED <<dbVars, now>>
    /\ IF username = SUPER_ADMIN_USERNAME /\ password = SUPER_ADMIN_PASSWORD
       THEN LET token == generate_token([role |-> "super-admin", tenant_id |-> 0,
                                         username |-> username, is_super_admin |-> FALSE])
            IN /\ Issue(token)
               /\ Respond("super_admin_login", NoToken, FALSE, {}, 200, TRUE, {},
                          <<username>>, <<token, 0>>)
       ELSE /\ Respond("super_admin_login", NoToken, FALSE, {}, 401, TRUE, {}, <<username>>, <<>>)
            /\ UNCHANGED tokens

\* ------------------------------------------------- face service (backend.services)
\* A face descriptor is a point on a line, distances are in tenths: the
\* thresholds 0.6, 0.3 and 0.7 of the callers are 6, 3 and 7.
\* Appearances of one person that differ from each other by 0.3 or more.
FaceProbes == {39, 42, 45}
Descriptors == {0, 2, 4, 20, 30, 33, 36} \cup FaceProbes

validate_face_descriptor(descriptor) == descriptor \in Descriptors

euclidean_distance(a, b) == IF a >= b THEN a - b ELSE b - a

StoredDescriptors(employee) ==
    IF employee.face_descriptors = <<>> /\ employee.face_descriptor # NULL
    THEN <<employee.face_descriptor[1]>>
    ELSE employee.face_descriptors

Range(seq) == {seq[i] : i \in 1..Len(seq)}

MinDistance(descriptor, employee) ==
    Min({euclidean_distance(descriptor, d) : d \in Range(StoredDescriptors(employee))})

\* The candidates find_best_match may return: those at the smallest distance,
\* when that distance is below the threshold.
find_best_match(descriptor, candidates, threshold) ==
    LET usable == {c \in candidates : StoredDescriptors(c) # <<>>}
    IN {c \in usable : /\ MinDistance(descriptor, c) < threshold
                       /\ \A o \in usable : MinDistance(descriptor, c) <= MinDistance(descriptor, o)}

Confidence(distance) == IF distance >= 10 THEN 0 ELSE 10 - distance

\* compress_image: re-encodes the image so that it is at most max_size pixels
\* wide; the stored size never exceeds the submitted one.
compress_image(image, max_size) == IF image > max_size THEN max_size ELSE image

\* --------------------------------------------------------------- deletes (models.py)
delete_store_rows(tenant_id, name) ==
    /\ timeclock' = {tc \in timeclock : ~(tc.tenant_id = tenant_id /\ tc.store_id = name)}
    /\ stores' = {s \in stores : ~(s.tenant_id = tenant_id /\ s.name = name)}
    /\ UNCHANGED <<tenants, managers, employees, inventory, inventory_history, eod, next_id>>

\* db.session.delete(employee) cascades to the employee's timeclock entries.
delete_employee_rows(employee_id) ==
    /\ employees' = {e \in employees : e.id # employee_id}
    /\ timeclock' = {tc \in timeclock : tc.employee_id # employee_id}
    /\ UNCHANGED <<tenants, managers, stores, inventory, inventory_history, eod, next_id>>

OwnersOf(rows) == {r.tenant_id : r \in rows}

\* ------------------------------------------------------------ guarded read routes
list_stores(token, manager_username) ==
    LET a == require_auth({}, token) IN
    \/ Denied("list_stores", token, {}, a)
    \/ /\ a.status = 200
       /\ g' = a.g
       /\ IF ContextTenantId(a.g) = 0
          THEN Reply("list_stores", token, TRUE, {}, 500, {}, <<manager_username>>, <<>>)
          ELSE LET rows == get_stores(ContextTenantId(a.g), manager_username)
               IN Reply("list_stores", token, TRUE, {}, 200, OwnersOf(rows),
                        <<manager_username>>, {r.id : r \in rows})

remove_store(token, name) ==
    LET a == require_auth({"manager"}, token) IN
    \/ Denied("remove_store", token, {"manager"}, a)
    \/ /\ a.status = 200
       /\ g' = a.g
       /\ UNCHANGED <<now, tokens>>
       /\ IF ContextTenantId(a.g) = 0
          THEN /\ Respond("remove_store", token, TRUE, {"manager"}, 500, TRUE, {}, <<name>>, <<>>)
               /\ UNCHANGED dbVars
          ELSE LET tenant_id == ContextTenantId(a.g)
                   hit == {s \in stores : s.tenant_id = tenant_id /\ s.name = name}
               IN IF hit = {}
                  THEN /\ Respond("remove_store", token, TRUE, {"manager"}, 404, TRUE, {},
                                  <<name>>, <<>>)
                       /\ UNCHANGED dbVars
                  ELSE /\ delete_store_rows(tenant_id, name)
                       /\ Respond("remove_store", token, TRUE, {"manager"}, 200, TRUE,
                                  OwnersOf(hit), <<name>>, <<>>)

\* managers.py: list_managers and get_manager pass no tenant id to the model layer.
list_managers(token) ==
    LET a == require_auth({"super-admin"}, token) IN
    \/ Denied("list_managers", token, {"super-admin"}, a)
    \/ /\ a.status = 200
       /\ g' = a.g
       /\ LET rows == get_all_managers(0)
          IN Reply("list_managers", token, TRUE, {"super-admin"}, 200, OwnersOf(rows),
                   <<>>, {r.id : r \in rows})

get_manager(token, username) ==
    LET a == require_auth({"super-admin"}, token) IN
    \/ Denied("get_manager", token, {"super-admin"}, a)
    \/ /\ a.status = 200
       /\ g' = a.g
       /\ IF get_manager_by_username(username, 0) = {}
          THEN Reply("get_manager", token, TRUE, {"super-admin"}, 404, {}, <<username>>, {})
          ELSE \E manager \in get_manager_by_username(username, 0) :
               Reply("get_manager", token, TRUE, {"super-admin"}, 200, {manager.tenant_id},
                     <<username>>, {manager.id})

\* ------------------------------------------------------------- unguarded routes
\* employees.py:43-49: no require_auth, and delete_employee takes no tenant id.
remove_employee(employee_id) ==
    /\ g' = NoContext
    /\ UNCHANGED <<now, tokens>>
    /\ LET hit == {e \in employees : e.id = employee_id}
       IN IF hit = {}
          THEN /\ Respond("remove_employee", NoToken, FALSE, {}, 404, TRUE, {},
                          <<employee_id>>, <<>>)
               /\ UNCHANGED dbVars
          ELSE /\ delete_employee_rows(employee_id)
               /\ Respond("remove_employee", NoToken, FALSE, {}, 200, TRUE, OwnersOf(hit),
                          <<employee_id>>, <<>>)

\* face.py:244-306: no require_auth, every tenant's registered employees are candidates.
recognize_face(face_descriptor) ==
    /\ g' = NoContext
    /\ LET registered_employees == {e \in employees : e.face_registered}
           match == find_best_match(face_descriptor, registered_employees, 6)
       IN IF ~validate_face_descriptor(face_descriptor)
          THEN Reply("recognize_face", NoToken, FALSE, {}, 400, {}, <<face_descriptor>>, {})
          ELSE IF registered_employees = {} \/ match = {}
          THEN Reply("recognize_face", NoToken, FALSE, {}, 404, OwnersOf(registered_employees),
                     <<face_descriptor>>, {})
          ELSE \E m \in match :
               Reply("recognize_face", NoToken, FALSE, {}, 200, OwnersOf(registered_employees),
                     <<face_descriptor>>, {m.id})

\* ============================================================ the guard at work
\* Two tenants, each with a manager, a store and a registered employee; tenant
\* 1's manager is its super admin.
BaseTenants == {TenantRow(1, "one@example.com", "basic", "active", 0),
                TenantRow(2, "two@example.com", "basic", "active", 0)}
BaseManagers == {ManagerRow(1, 1, "boss", "Pw1!", TRUE),
                 ManagerRow(2, 2, "bob", "Pw2!", FALSE)}
BaseStores == {StoreRow(1, 1, "A", "a", "Pw1!", "boss", ""),
               StoreRow(2, 2, "A", "a2", "Pw2!", "bob", "")}
BaseEmployees == {EmployeeRow(1, 1, "A", "Ann", <<0>>, 0),
                  EmployeeRow(2, 2, "A", "Bo", <<20>>, 0)}
BaseIds == [stores |-> 3, employees |-> 3, managers |-> 3, timeclock |-> 1,
            inventory |-> 1, inventory_history |-> 1, eod |-> 1, tenants |-> 3]

AuthInit ==
    /\ tenants = BaseTenants
    /\ managers = BaseManagers
    /\ stores = BaseStores
    /\ employees = BaseEmployees
    /\ inventory = {}
    /\ inventory_history = {}
    /\ timeclock = {}
    /\ eod = {}
    /\ next_id = BaseIds
    /\ now = 0
    /\ tokens = {}
    /\ g = NoContext
    /\ resp = NoResp

AuthNext ==
    \/ Tick(AuthSteps)
    \/ \E u \in {"a", "ghost"}, p \in Passwords : store_login(u, p, "10.0.0.1")
    \/ \E u \in {"boss", "bob", "ghost"}, p \in Passwords : manager_login(u, p)
    \/ \E p \in {SUPER_ADMIN_PASSWORD, "Pw1!"} : super_admin_login(SUPER_ADMIN_USERNAME, p)
    \/ \E token \in get_auth_token : list_stores(token, "")
    \/ \E token \in get_auth_token, name \in {"A", "B"} : remove_store(token, name)
    \/ \E token \in get_auth_token : list_managers(token)
    \/ \E token \in get_auth_token, u \in {"bob", "ghost"} : get_manager(token, u)
    \/ \E id \in 1..3 : remove_employee(id)
    \/ \E d \in {0, 20, 4} : recognize_face(d)

SpecAuth == AuthInit /\ [][AuthNext]_vars

\* The tenant a request acts for: the tenant_id of the token the guard accepted.
CallerTenant == IF resp.guarded /\ resp.ran THEN resp.token.payload.tenant_id ELSE 0

\* C1 -- tenant isolation: a request made with a token of tenant T, or without
\* a token, reads, modifies or deletes no row owned by another tenant.
TenantIsolation ==
    resp.op \notin LoginOps => \A t \in resp.touched : t = CallerTenant

\* A token generate_token issued, with the default 24 h lifetime.
Genuine(token) == token \in tokens /\ token.payload.exp = token.payload.iat + 24 * 60
ExpiredAt(token, at) == token.payload.exp <= at
RoleAllowed(token, roles) == roles = {} \/ token.payload.role \in roles

GuardOutcome ==
    resp.guarded =>
      /\ resp.ran => /\ Genuine(resp.token)
                     /\ ~ExpiredAt(resp.token, resp.at)
                     /\ RoleAllowed(resp.token, resp.roles)
      /\ (~resp.token.present \/ ~Genuine(resp.token) \/ ExpiredAt(resp.token, resp.at))
            => (resp.status = 401 /\ ~resp.ran)
      /\ (Genuine(resp.token) /\ ~ExpiredAt(resp.token, resp.at)
            /\ ~RoleAllowed(resp.token, resp.roles))
            => (resp.status = 403 /\ ~resp.ran)

\* C2 -- route guard: the body of a guarded handler runs only with a token
\* issued by generate_token, not yet expired (24 h after issue), whose role is
\* allowed; a missing, tampered or expired token yields 401, a role outside the
\* allowed set 403, and in both cases nothing persisted changes.
RouteGuard == [][GuardOutcome' /\ (~resp'.ran => UNCHANGED dbVars)]_vars

\* An issued token presented after its expiry was turned away with 401.
RouteGuardWitness ==
    /\ resp.guarded /\ resp.token \in tokens
    /\ ExpiredAt(resp.token, resp.at)
    /\ resp.status = 401 /\ ~resp.ran

\* C3 -- after a successful guard the decoded claims are the context's
\* current_user and a tenant_id claim is the context's tenant_id.
ContextCarriesTenant ==
    (resp.guarded /\ resp.ran) =>
      /\ g.current_user = resp.token.payload
      /\ resp.token.payload.tenant_id # 0 =>
            (g.has_tenant_id /\ g.tenant_id = resp.token.payload.tenant_id)

\* ============================================================ storage (utils/storage.py)
\* A face image is its base64 text, represented by the text's length; the
\* decoded size is three bytes for every four characters.
calculate_base64_size(base64_string) == (base64_string \div 4) * 3

\* Tenant.check_storage_limit (models.py:46-48) behind storage.check_storage_limit.
check_storage_limit_strict(tenant_id, additional_bytes) ==
    \E t \in Tenant_query_get(tenant_id) :
        t.used_storage_bytes + additional_bytes < t.max_storage_bytes

check_storage_limit(tenant_id, additional_bytes) ==
    \E t \in Tenant_query_get(tenant_id) :
        t.used_storage_bytes + additional_bytes <= t.max_storage_bytes

\* update_tenant_storage (models.py:494-505): the table after the update.
update_tenant_storage(tenant_id, additional_bytes) ==
    {IF t.id # tenant_id THEN t
     ELSE [t EXCEPT !.used_storage_bytes =
              IF t.used_storage_bytes + additional_bytes < 0 THEN 0
              ELSE t.used_storage_bytes + additional_bytes] : t \in tenants}

\* update_storage_usage: raises when a positive delta no longer fits or the
\* tenant is gone, otherwise persists the new total.
update_storage_usage(tenant_id, additional_bytes) ==
    IF \/ additional_bytes > 0 /\ ~check_storage_limit(tenant_id, additional_bytes)
       \/ Tenant_query_get(tenant_id) = {}
    THEN [raised |-> TRUE, tenants |-> tenants]
    ELSE [raised |-> FALSE, tenants |-> update_tenant_storage(tenant_id, additional_bytes)]

\* ============================================================ timeclock (routes/timeclock.py)
TimeClockRow(id, tenant_id, employee_id, employee_name, store_id, image, confidence) ==
    [id |-> id, tenant_id |-> tenant_id, employee_id |-> employee_id,
     employee_name |-> employee_name, store_id |-> store_id,
     clock_in |-> now, clock_out |-> NULL, hours_worked |-> NULL,
     clock_in_face_image |-> image, clock_out_face_image |-> 0,
     clock_in_confidence |-> confidence, clock_out_confidence |-> NULL]

\* datetime.utcnow().replace(hour=0, minute=0, second=0, microsecond=0)
today_start == now - (now % 1440)

\* round((clock_out - clock_in).total_seconds() / 3600, 2), in hundredths of an
\* hour; with whole minutes no value falls on a rounding tie.
hours_worked_rounded(clock_in, clock_out) == (10 * (clock_out - clock_in) + 3) \div 6

\* The open entries of today the face handlers look for (timeclock.py:153-158, 312-317).
open_entry_any_day(tenant_id, employee_id) ==
    {tc \in timeclock : /\ tc.tenant_id = tenant_id
                        /\ tc.employee_id = employee_id
                        /\ tc.clock_out = NULL}

open_entry_today(tenant_id, employee_id) ==
    {tc \in timeclock : /\ tc.tenant_id = tenant_id
                        /\ tc.employee_id = employee_id
                        /\ tc.clock_in >= today_start
                        /\ tc.clock_out = NULL}

\* float('inf'), in tenths like every distance.
Infinity == 1000000

\* Opportunistic learning (timeclock.py:127-148, 286-307): the employee table
\* after the handler looked at the probe.
learn_appearance(employee, face_descriptor, confidence) ==
    LET existing_descriptors == StoredDescriptors(employee)
        min_distance == IF existing_descriptors = <<>> THEN Infinity
                        ELSE MinDistance(face_descriptor, employee)
        appended == Append(existing_descriptors, face_descriptor)
        kept == IF Len(appended) > 5 THEN SubSeq(appended, Len(appended) - 4, Len(appended))
                ELSE appended
    IN IF min_distance > 3 /\ confidence > 7
       THEN {IF e.id = employee.id THEN [e EXCEPT !.face_descriptors = kept] ELSE e
             : e \in employees}
       ELSE employees

ClockReply(op, token, status, touched, arg, out) ==
    Respond(op, token, TRUE, {}, status, TRUE, touched, arg, out)

NoMatch == [employee_id |-> 0, reason |-> ""]

\* POST /clock-in (legacy)
clock_in_route(token, employee_id) ==
    LET a == require_auth({}, token) IN
    \/ Denied("clock_in", token, {}, a)
    \/ /\ a.status = 200
       /\ g' = a.g
       /\ UNCHANGED <<now, tokens>>
       /\ LET tenant_id == ContextTenantId(a.g)
              employee == {e \in employees : e.id = employee_id /\ e.tenant_id = tenant_id}
          IN IF tenant_id = 0
             THEN /\ ClockReply("clock_in", token, 500, {}, <<employee_id>>, NoMatch)
                  /\ UNCHANGED dbVars
             ELSE IF employee = {}
             THEN /\ ClockReply("clock_in", token, 404, {}, <<employee_id>>, NoMatch)
                  /\ UNCHANGED dbVars
             ELSE /\ next_id.timeclock <= MaxEntries
                  /\ timeclock' = timeclock \cup
                        {TimeClockRow(next_id.timeclock, tenant_id, employee_id, "", "", 0, NULL)}
                  /\ next_id' = [next_id EXCEPT !.timeclock = @ + 1]
                  /\ ClockReply("clock_in", token, 201, {tenant_id}, <<employee_id>>,
                                [employee_id |-> employee_id, reason |-> "created"])
                  /\ UNCHANGED <<tenants, managers, stores, employees, inventory,
                                 inventory_history, eod>>

\* POST /clock-out (legacy)
clock_out_route(token, entry_id) ==
    LET a == require_auth({}, token) IN
    \/ Denied("clock_out", token, {}, a)
    \/ /\ a.status = 200
       /\ g' = a.g
       /\ UNCHANGED <<now, tokens>>
       /\ LET tenant_id == ContextTenantId(a.g)
              entry == {tc \in timeclock : tc.id = entry_id /\ tc.tenant_id = tenant_id}
          IN IF tenant_id = 0
             THEN /\ ClockReply("clock_out", token, 500, {}, <<entry_id>>, NoMatch)
                  /\ UNCHANGED dbVars
             ELSE IF entry = {}
             THEN /\ ClockReply("clock_out", token, 400, {}, <<entry_id>>, NoMatch)
                  /\ UNCHANGED dbVars
             ELSE /\ timeclock' = {IF tc \in entry THEN [tc EXCEPT !.clock_out = <<now>>] ELSE tc
                                   : tc \in timeclock}
                  /\ ClockReply("clock_out", token, 200, {tenant_id}, <<entry_id>>,
                                [employee_id |-> (CHOOSE tc \in entry : TRUE).employee_id,
                                 reason |-> "closed"])
                  /\ UNCHANGED <<tenants, managers, stores, employees, inventory,
                                 inventory_history, eod, next_id>>

\* The face handlers up to the match (timeclock.py:79-125, 238-284): the status
\* they return early, or 0 and the employees find_best_match may name.
recognise(tenant_id, face_descriptor) ==
    LET registered_employees == {e \in employees : e.tenant_id = tenant_id /\ e.face_registered}
        match == find_best_match(face_descriptor, registered_employees, 6)
    IN IF ~validate_face_descriptor(face_descriptor) THEN [status |-> 400, match |-> {}]
       ELSE IF registered_employees = {} \/ match = {} THEN [status |-> 404, match |-> {}]
       ELSE [status |-> 0, match |-> match]

\* POST /clock-in-face
clock_in_face(token, face_descriptor, face_image, store_id) ==
    LET a == require_auth({}, token)
        arg == <<face_descriptor, face_image>>
    IN
    \/ Denied("clock_in_face", token, {}, a)
    \/ /\ a.status = 200
       /\ g' = a.g
       /\ UNCHANGED <<now, tokens, managers, stores, inventory, inventory_history, eod>>
       /\ LET tenant_id == ContextTenantId(a.g)
              r == recognise(tenant_id, face_descriptor)
          IN IF tenant_id = 0 \/ r.status # 0
             THEN /\ ClockReply("clock_in_face", token, IF tenant_id = 0 THEN 500 ELSE r.status,
                                {}, arg, NoMatch)
                  /\ UNCHANGED <<tenants, employees, timeclock, next_id>>
             ELSE \E employee \in r.match :
                  LET confidence == Confidence(MinDistance(face_descriptor, employee))
                      existing_entry == open_entry_today(tenant_id, employee.id)
                      compressed_image == IF face_image # 0 THEN compress_image(face_image, 400) ELSE 0
                      image_size == calculate_base64_size(compressed_image)
                      u == update_storage_usage(tenant_id, image_size)
                      out(reason) == [employee_id |-> employee.id, reason |-> reason]
                  IN /\ employees' = learn_appearance(employee, face_descriptor, confidence)
                     /\ IF existing_entry # {}
                        THEN /\ ClockReply("clock_in_face", token, 400, {tenant_id}, arg, out("already"))
                             /\ UNCHANGED <<tenants, timeclock, next_id>>
                        ELSE IF compressed_image # 0 /\ ~check_storage_limit(tenant_id, image_size)
                        THEN /\ ClockReply("clock_in_face", token, 400, {tenant_id}, arg, out("storage"))
                             /\ UNCHANGED <<tenants, timeclock, next_id>>
                        ELSE IF compressed_image # 0 /\ u.raised
                        THEN /\ ClockReply("clock_in_face", token, 500, {tenant_id}, arg, out("storage"))
                             /\ UNCHANGED <<tenants, timeclock, next_id>>
                        ELSE /\ next_id.timeclock <= MaxEntries
                             /\ tenants' = IF compressed_image # 0 THEN u.tenants ELSE tenants
                             /\ timeclock' = timeclock \cup
                                   {TimeClockRow(next_id.timeclock, tenant_id, employee.id,
                                                 employee.name, store_id, compressed_image,
                                                 <<confidence>>)}
                             /\ next_id' = [next_id EXCEPT !.timeclock = @ + 1]
                             /\ ClockReply("clock_in_face", token, 201, {tenant_id}, arg, out("created"))

\* POST /clock-out-face
clock_out_face(token, face_descriptor, face_image, store_id) ==
    LET a == require_auth({}, token)
        arg == <<face_descriptor, face_image>>
    IN
    \/ Denied("clock_out_face", token, {}, a)
    \/ /\ a.status = 200
       /\ g' = a.g
       /\ UNCHANGED <<now, tokens, managers, stores, inventory, inventory_history, eod, next_id>>
       /\ LET tenant_id == ContextTenantId(a.g)
              r == recognise(tenant_id, face_descriptor)
          IN IF tenant_id = 0 \/ r.status # 0
             THEN /\ ClockReply("clock_out_face", token, IF tenant_id = 0 THEN 500 ELSE r.status,
                                {}, arg, NoMatch)
                  /\ UNCHANGED <<tenants, employees, timeclock>>
             ELSE \E employee \in r.match :
                  LET confidence == Confidence(MinDistance(face_descriptor, employee))
                      compressed_image == IF face_image # 0 THEN compress_image(face_image, 400) ELSE 0
                      out(reason) == [employee_id |-> employee.id, reason |-> reason]
                  IN /\ employees' = learn_appearance(employee, face_descriptor, confidence)
                     /\ IF open_entry_today(tenant_id, employee.id) = {}
                        THEN /\ ClockReply("clock_out_face", token, 400, {tenant_id}, arg, out("not in"))
                             /\ UNCHANGED <<tenants, timeclock>>
                        ELSE \E active_entry \in open_entry_today(tenant_id, employee.id) :
                             LET old_image_size == calculate_base64_size(active_entry.clock_out_face_image)
                                 new_image_size == calculate_base64_size(compressed_image)
                                 size_change == new_image_size - old_image_size
                                 u == update_storage_usage(tenant_id, size_change)
                                 closed == [active_entry EXCEPT
                                     !.clock_out = <<now>>,
                                     !.clock_out_face_image = compressed_image,
                                     !.clock_out_confidence = <<confidence>>,
                                     !.hours_worked = <<hours_worked_rounded(active_entry.clock_in, now)>>]
                             IN IF compressed_image # 0 /\ size_change > 0
                                   /\ ~check_storage_limit(tenant_id, size_change)
                                THEN /\ ClockReply("clock_out_face", token, 400, {tenant_id}, arg,
                                                   out("storage"))
                                     /\ UNCHANGED <<tenants, timeclock>>
                                ELSE IF compressed_image # 0 /\ size_change # 0 /\ u.raised
                                THEN /\ ClockReply("clock_out_face", token, 500, {tenant_id}, arg,
                                                   out("storage"))
                                     /\ UNCHANGED <<tenants, timeclock>>
                                ELSE /\ tenants' = IF compressed_image # 0 /\ size_change # 0
                                                   THEN u.tenants ELSE tenants
                                     /\ timeclock' = (timeclock \ {active_entry}) \cup {closed}
                                     /\ ClockReply("clock_out_face", token, 200, {tenant_id}, arg,
                                                   out("closed"))

\* ------------------------------------------------------------- clock specification
\* Late evening of day 0, so that midnight (minute 1440) falls inside the run.
ClockStart == 20 * 60
\* The token a login at minute `at` issued (generate_token with now = at).
IssuedAt(at, role, tenant_id, username) ==
    LET payload == [NoUser EXCEPT !.role = role, !.tenant_id = tenant_id,
                                  !.username = username, !.iat = at,
                                  !.exp = at + expires_in_hours * 60]
    IN [present |-> TRUE, payload |-> payload, sig |-> HS256(payload, get_jwt_secret)]
ClockTokens == {IssuedAt(ClockStart, "store", 1, "a")}
\* Tenant 1 has room for two compressed face images (300 bytes each) but not three.
ClockTenants == {TenantRow(1, "t1@x", "basic", "active", plan_limits("basic") - 700),
                 TenantRow(2, "t2@x", "basic", "active", 0)}
ClockInImages == {0, 800}
ClockOutImages == {800}

ClockInit ==
    /\ tenants = ClockTenants
    /\ managers = BaseManagers
    /\ stores = BaseStores
    /\ employees = BaseEmployees
    /\ inventory = {}
    /\ inventory_history = {}
    /\ timeclock = {}
    /\ eod = {}
    /\ next_id = BaseIds
    /\ now = ClockStart
    /\ tokens = ClockTokens
    /\ g = NoContext
    /\ resp = NoResp

ClockNext ==
    \/ Tick(ClockSteps)
    \/ \E token \in ClockTokens \cup {NoToken}, employee_id \in 1..2 :
          clock_in_route(token, employee_id)
    \/ \E token \in ClockTokens \cup {NoToken}, entry_id \in 1..MaxEntries :
          clock_out_route(token, entry_id)
    \/ \E token \in ClockTokens \cup {NoToken}, d \in {0, 20}, image \in ClockInImages :
          clock_in_face(token, d, image, "A")
    \/ \E token \in ClockTokens \cup {NoToken}, image \in ClockOutImages :
          clock_out_face(token, 0, image, "A")

SpecClock == ClockInit /\ [][ClockNext]_vars

\* ------------------------------------------------------------------ claims C4 - C6
OpenToday(employee_id) ==
    {tc \in timeclock : /\ tc.employee_id = employee_id
                        /\ tc.clock_out = NULL
                        /\ tc.clock_in \div 1440 = now \div 1440}

FaceClockInStep ==
    /\ resp'.op = "clock_in_face"
    /\ resp'.ran
    /\ resp'.out.employee_id # 0

ImageFits(image) ==
    \/ image = 0
    \/ \E t \in tenants : /\ t.id = resp'.token.payload.tenant_id
                          /\ t.used_storage_bytes + ((compress_image(image, 400) \div 4) * 3)
                                <= t.max_storage_bytes

NewOpenEntry(employee_id) ==
    \E tc \in timeclock' \ timeclock :
        /\ timeclock' = timeclock \cup {tc}
        /\ tc.employee_id = employee_id
        /\ tc.clock_in = now
        /\ tc.clock_out = NULL

save_file_to_tenant_directory(tenant_id, file_size) ==
    LET u == update_storage_usage(tenant_id, file_size) IN
    /\ g' = NoContext
    /\ UNCHANGED <<managers, stores, employees, inventory, inventory_history, timeclock,
                   eod, next_id, now, tokens>>
    /\ IF ~check_storage_limit(tenant_id, file_size) \/ u.raised
       THEN /\ Respond("save_file", NoToken, FALSE, {}, 400, TRUE, {}, <<tenant_id, file_size>>, <<>>)
            /\ UNCHANGED tenants
       ELSE /\ tenants' = u.tenants
            /\ Respond("save_file", NoToken, FALSE, {}, 201, TRUE, {tenant_id},
                       <<tenant_id, file_size>>, <<>>)

\* Tenants that start 300 or 100 bytes below the basic plan's ceiling.
StorageStarts == {plan_limits("basic") - 300, plan_limits("basic") - 100}
FileSizes == {50, 100, 200}

StorageInit ==
    /\ \E u1 \in StorageStarts, u2 \in StorageStarts :
          tenants = {TenantRow(1, "one@example.com", "basic", "active", u1),
                     TenantRow(2, "two@example.com", "basic", "active", u2)}
    /\ managers = BaseManagers
    /\ stores = BaseStores
    /\ employees = BaseEmployees
    /\ inventory = {}
    /\ inventory_history = {}
    /\ timeclock = {}
    /\ eod = {}
    /\ next_id = BaseIds
    /\ now = 0
    /\ tokens = {}
    /\ g = NoContext
    /\ resp = NoResp

StorageNext ==
    \E tenant_id \in 1..3, file_size \in FileSizes :
        save_file_to_tenant_directory(tenant_id, file_size)

SpecStorage == StorageInit /\ [][StorageNext]_vars

\* C7: charging n > 0 bytes to a tenant with U bytes used of M is rejected and
\* leaves U as it is when U + n > M, and is accepted and leaves exactly U + n
\* when U + n <= M.
StorageQuotaEnforced ==
    [][resp'.op = "save_file" =>
         \A t \in tenants : t.id = resp'.arg[1] =>
             LET U == t.used_storage_bytes
                 M == t.max_storage_bytes
                 n == resp'.arg[2]
             IN IF U + n > M
                THEN resp'.status = 400 /\ tenants' = tenants
                ELSE /\ resp'.status = 201
                     /\ tenants' = (tenants \ {t}) \cup {[t EXCEPT !.used_storage_bytes = U + n]}]_vars

\* 50 bytes were charged to a tenant that had M - 100 in use: M - 50 now.
StorageQuotaWitness ==
    /\ resp.op = "save_file"
    /\ resp.status = 201
    /\ resp.arg = <<1, 50>>
    /\ \E t \in tenants : /\ t.id = 1
                          /\ t.max_storage_bytes = 1073741824
                          /\ t.used_storage_bytes = 1073741824 - 50

\* ====================================================== inventory (models.py, routes/inventory.py)
InventoryRow(id, tenant_id, store_id, sku, name, quantity) ==
    [id |-> id, tenant_id |-> tenant_id, store_id |-> store_id, sku |-> sku,
     name |-> name, quantity |-> quantity]

\* UniqueConstraint('tenant_id', 'store_id', 'sku') (models.py:221-223)
uq_tenant_store_sku(rows) ==
    \A i, j \in rows :
        (i.tenant_id = j.tenant_id /\ i.store_id = j.store_id /\ i.sku = j.sku) => i.id = j.id

\* update_inventory_item (models.py:793-822) for the item `item` its lookup
\* found: FALSE when the new sku is taken, else the table after the change.
\* quantity is NULL or <<q>>, new_sku "" when the request has none.
update_inventory_item(tenant_id, store_id, item, quantity, new_sku) ==
    LET existing == {i \in inventory : /\ i.tenant_id = tenant_id
                                       /\ i.store_id = store_id
                                       /\ i.sku = new_sku
                                       /\ i.id # item.id}
        changed == [item EXCEPT !.sku = IF new_sku # "" THEN new_sku ELSE @,
                                !.quantity = IF quantity # NULL THEN quantity[1] ELSE @]
    IN IF new_sku # "" /\ existing # {}
       THEN [success |-> FALSE, inventory |-> inventory]
       ELSE [success |-> TRUE, inventory |-> (inventory \ {item}) \cup {changed}]

\* PUT /api/inventory/ ; item_id 0 and sku "" stand for fields the body lacks.
update_item(token, store_id, item_id, sku, quantity, new_sku) ==
    LET a == require_auth({}, token)
        arg == <<store_id, item_id, sku, quantity, new_sku>>
        R(status, touched) == Respond("update_item", token, TRUE, {}, status, TRUE, touched, arg, <<>>)
    IN
    \/ Denied("update_item", token, {}, a)
    \/ /\ a.status = 200
       /\ g' = a.g
       /\ UNCHANGED <<tenants, managers, stores, employees, inventory_history, timeclock,
                      eod, next_id, now, tokens>>
       /\ LET tenant_id == ContextTenantId(a.g)
              found == IF item_id # 0
                       THEN {i \in inventory : i.tenant_id = tenant_id /\ i.id = item_id}
                       ELSE {i \in inventory : /\ i.tenant_id = tenant_id
                                               /\ i.store_id = store_id /\ i.sku = sku}
          IN IF tenant_id = 0
             THEN R(500, {}) /\ UNCHANGED inventory
             ELSE IF item_id = 0 /\ (store_id = "" \/ sku = "")
             THEN R(400, {}) /\ UNCHANGED inventory
             ELSE IF found = {}
             THEN R(404, {tenant_id}) /\ UNCHANGED inventory
             ELSE \E item \in found :
                  LET u == update_inventory_item(tenant_id, store_id, item, quantity, new_sku)
                  IN IF ~u.success
                     THEN R(409, {tenant_id}) /\ UNCHANGED inventory
                     ELSE IF ~uq_tenant_store_sku(u.inventory)
                     THEN R(500, {tenant_id}) /\ UNCHANGED inventory
                     ELSE R(200, {tenant_id}) /\ inventory' = u.inventory

\* ================================================ inventory history (routes/inventory_history.py)
\* A date string of a request: absent, "YYYY-MM-DD" (ymd), an ISO timestamp
\* (iso), ten characters that are no date (bad10), or other text that does
\* not parse (junk).  `day` is the calendar day a well-formed string names.
NoDate == [kind |-> "none", day |-> 0]
Ymd(day) == [kind |-> "ymd", day |-> day]
Iso(day) == [kind |-> "iso", day |-> day]
Bad10 == [kind |-> "bad10", day |-> 0]
Junk == [kind |-> "junk", day |-> 0]
Raises == -1

\* len(s) == 10
Len10(date) == date.kind \in {"ymd", "bad10"}

\* datetime(int(parts[0]), int(parts[1]), int(parts[2])): the day, or Raises.
ParseYmd(date) == IF date.kind = "ymd" THEN date.day ELSE Raises

\* datetime.now() normalised to midnight
ServerDay == now \div 1440

\* The fallback of lines 56-62 and 64-70: today_date if it has ten characters
\* (parsed outside any try), else the server's date.
FallbackDay(today_date) ==
    IF today_date.kind # "none" /\ Len10(today_date) THEN ParseYmd(today_date) ELSE ServerDay

\* snapshot_dt (lines 45-70)
ResolveSnapshotDay(snapshot_date, today_date) ==
    IF snapshot_date.kind \in {"ymd", "iso"} THEN snapshot_date.day
    ELSE FallbackDay(today_date)

\* today_dt (lines 84-95)
ResolveTodayDay(today_date) ==
    IF today_date.kind # "none" /\ Len10(today_date) /\ ParseYmd(today_date) # Raises
    THEN ParseYmd(today_date) ELSE ServerDay

\* `snapshot_dt < today_dt` (lines 106, 121)
before_today_or_today(snapshot_dt, today_dt) == snapshot_dt <= today_dt
never_before_today(snapshot_dt, today_dt) == FALSE
before_today(snapshot_dt, today_dt) == snapshot_dt < today_dt

\* normalized_items (lines 73-81)
normalized_items(tenant_id, store_id) ==
    {[sku |-> i.sku, name |-> i.name, quantity |-> i.quantity, price |-> 0] :
        i \in {r \in inventory : r.tenant_id = tenant_id /\ r.store_id = store_id}}

\* POST /api/inventory/history/snapshot
create_inventory_snapshot(token, store_id, snapshot_date, today_date) ==
    LET a == require_auth({}, token)
        arg == [store_id |-> store_id, snapshot_date |-> snapshot_date, today_date |-> today_date]
        R(status, touched, id) ==
            Respond("snapshot", token, TRUE, {}, status, TRUE, touched, arg, [id |-> id])
    IN
    \/ Denied("snapshot", token, {}, a)
    \/ /\ a.status = 200
       /\ g' = a.g
       /\ UNCHANGED <<tenants, managers, stores, employees, inventory, timeclock, eod,
                      now, tokens>>
       /\ LET tenant_id == ContextTenantId(a.g)
              snapshot_dt == ResolveSnapshotDay(snapshot_date, today_date)
              today_dt == ResolveTodayDay(today_date)
              existing == {h \in inventory_history : /\ h.tenant_id = tenant_id
                                                     /\ h.store_id = store_id
                                                     /\ h.snapshot_date = snapshot_dt}
          IN IF tenant_id = 0
             THEN R(500, {}, 0) /\ UNCHANGED <<inventory_history, next_id>>
             ELSE IF store_id = ""
             THEN R(400, {}, 0) /\ UNCHANGED <<inventory_history, next_id>>
             ELSE IF snapshot_dt = Raises
             THEN R(500, {}, 0) /\ UNCHANGED <<inventory_history, next_id>>
             ELSE IF existing # {}
             THEN \E h \in existing :
                  IF before_today(snapshot_dt, today_dt)
                  THEN R(403, {tenant_id}, 0) /\ UNCHANGED <<inventory_history, next_id>>
                  ELSE /\ inventory_history' = (inventory_history \ {h}) \cup
                             {[h EXCEPT !.items = normalized_items(tenant_id, store_id)]}
                       /\ R(200, {tenant_id}, h.id)
                       /\ UNCHANGED next_id
             ELSE IF before_today(snapshot_dt, today_dt)
             THEN R(403, {tenant_id}, 0) /\ UNCHANGED <<inventory_history, next_id>>
             ELSE /\ next_id.inventory_history <= MaxSnapshots
                  /\ inventory_history' = inventory_history \cup
                        {[id |-> next_id.inventory_history, tenant_id |-> tenant_id,
                          store_id |-> store_id, snapshot_date |-> snapshot_dt,
                          items |-> normalized_items(tenant_id, store_id)]}
                  /\ next_id' = [next_id EXCEPT !.inventory_history = @ + 1]
                  /\ R(201, {tenant_id}, next_id.inventory_history)

\* --------------------------------------------------------- snapshot specification
\* Noon of day 0; one step later it is midnight of day 1.
SnapshotStart == 12 * 60
SnapshotSteps == {720}
SnapshotTokens == {IssuedAt(SnapshotStart, "store", 1, "a")}
SnapshotDates == {NoDate, Ymd(0), Ymd(1), Ymd(2), Iso(1), Bad10}
TodayDates == {NoDate, Ymd(1), Bad10}

SnapshotInit ==
    /\ tenants = BaseTenants
    /\ managers = BaseManagers
    /\ stores = BaseStores
    /\ employees = BaseEmployees
    /\ inventory = {InventoryRow(1, 1, "A", "Apple", "Apple", 3),
                    InventoryRow(2, 2, "A", "Apple", "Apple", 4)}
    /\ inventory_history = {}
    /\ timeclock = {}
    /\ eod = {}
    /\ next_id = [BaseIds EXCEPT !.inventory = 3]
    /\ now = SnapshotStart
    /\ tokens = SnapshotTokens
    /\ g = NoContext
    /\ resp = NoResp

SnapshotNext ==
    \/ Tick(SnapshotSteps)
    \/ \E token \in SnapshotTokens \cup {NoToken}, quantity \in {3, 7} :
          update_item(token, "A", 0, "Apple", <<quantity>>, "")
    \/ \E token \in SnapshotTokens \cup {NoToken}, store_id \in {"A", ""},
          snapshot_date \in SnapshotDates, today_date \in TodayDates :
          create_inventory_snapshot(token, store_id, snapshot_date, today_date)

SpecSnapshot == SnapshotInit /\ [][SnapshotNext]_vars

\* -------------------------------------------------------------- claims C8, C9
\* A POST /snapshot was handled for a store, with a well-formed today_date and
\* a snapshot date that is well-formed or left out.
SnapshotStep ==
    /\ resp'.op = "snapshot"
    /\ resp'.ran
    /\ resp'.arg.store_id # ""
    /\ resp'.arg.today_date.kind = "ymd"
    /\ resp'.arg.snapshot_date.kind \in {"ymd", "iso", "none"}

\* The date the request is about and the caller's today.
SnapshotDay ==
    IF resp'.arg.snapshot_date.kind = "none" THEN resp'.arg.today_date.day
    ELSE resp'.arg.snapshot_date.day
TodayDay == resp'.arg.today_date.day

SnapshotsFor(day) ==
    {h \in inventory_history : /\ h.tenant_id = resp'.token.payload.tenant_id
                               /\ h.store_id = resp'.arg.store_id
                               /\ h.snapshot_date = day}

SnapshotKey(h) == <<h.id, h.tenant_id, h.store_id, h.snapshot_date>>

UniqueSnapshots ==
    \A h1, h2 \in inventory_history :
        (h1.tenant_id = h2.tenant_id /\ h1.store_id = h2.store_id
            /\ h1.snapshot_date = h2.snapshot_date) => h1 = h2

get_default_inventory_items ==
    <<
      <<"Samsung", "S 23 FE">>, <<"Samsung", "S24 FE">>, <<"Samsung", "Samsung Tab 3">>,
      <<"Samsung", "Samsung Watch">>, <<"Apple", "Iphone 13">>, <<"Apple", "Iphone 14">>,
      <<"Apple", "Iphone 16">>, <<"Apple", "Iphone 16 e">>, <<"Apple", "Iphone 16 plus">>,
      <<"Apple", "Iphone 16 pro">>, <<"Apple", "Iphone 16 pro max">>, <<"Apple", "Apple Watch">>,
      <<"Motorola", "Moto g 2024">>, <<"Motorola", "Moto g 2025">>, <<"Motorola", "Moto power 2024">>,
      <<"Motorola", "Moto power 2025">>, <<"Motorola", "Moto razr 2024">>, <<"Motorola", "Moto stylus 2023">>,
      <<"Motorola", "Moto stylus 2024">>, <<"Motorola", "Moto stylus 2025">>, <<"Motorola", "Moto edge 2024">>,
      <<"TCL", "TCL 50 XL 3">>, <<"TCL", "TCL K32">>, <<"TCL", "TCL ION X">>,
      <<"TCL", "TCL K11">>, <<"TCL", "TCL Tab">>, <<"Revvl", "Rewl 7">>,
      <<"Revvl", "Rewl 7 pro">>, <<"Revvl", "Revvl Tab">>, <<"Revvl", "Revll 8">>,
      <<"Google", "Google pixel">>, <<"Chromebook", "Chrome book">>, <<"Flip Phone", "Flip Phone 3">>,
      <<"Generic", "A13">>, <<"Generic", "A15">>, <<"Generic", "A16">>,
      <<"Generic", "A35">>, <<"Generic", "A36">>, <<"Generic", "C210">>,
      <<"Generic", "G310">>, <<"Generic", "G400">>, <<"Generic", "HSI">>,
      <<"Simcards", "Simcards">>
    >>

\* UniqueConstraint('tenant_id', 'name') and ('tenant_id', 'username') on stores
\* (models.py:120-123): whether a commit of `rows` is accepted.
no_store_constraint(rows) == TRUE

uq_tenant_store_name(rows) ==
    \A s1, s2 \in rows : (s1.tenant_id = s2.tenant_id /\ s1.name = s2.name) => s1.id = s2.id

uq_tenant_store_username(rows) ==
    \A s1, s2 \in rows :
        (s1.tenant_id = s2.tenant_id /\ s1.username = s2.username) => s1.id = s2.id

\* UniqueConstraint('tenant_id', 'store_id', 'snapshot_date') (models.py:253-256)
uq_tenant_store_snapshot_date(rows) ==
    \A h1, h2 \in rows :
        (h1.tenant_id = h2.tenant_id /\ h1.store_id = h2.store_id
            /\ h1.snapshot_date = h2.snapshot_date) => h1.id = h2.id

\* add_default_inventory_to_store: the rows the loop adds from item k of the
\* list on, given the rows `acc` added so far (the session flushes before each
\* query, so a row added for a sku is seen by the later items).
RECURSIVE default_rows(_, _, _, _)
default_rows(tenant_id, store_name, k, acc) ==
    IF k > Len(get_default_inventory_items) THEN acc
    ELSE LET item == get_default_inventory_items[k]
             existing_item == {i \in inventory \cup acc : /\ i.tenant_id = tenant_id
                                                          /\ i.store_id = store_name
                                                          /\ i.sku = item[1]}
         IN IF existing_item # {}
            THEN default_rows(tenant_id, store_name, k + 1, acc)
            ELSE default_rows(tenant_id, store_name, k + 1,
                     acc \cup {InventoryRow(next_id.inventory + Cardinality(acc), tenant_id,
                                            store_name, item[1], item[2], 0)})

add_default_inventory_to_store(tenant_id, store_name) ==
    default_rows(tenant_id, store_name, 1, {})

\* name.lower().replace(" ", "")
LowerStrip(name) ==
    CASE name = "A" -> "a"
      [] name = "B" -> "b"
      [] name = "A B" -> "ab"
      [] name = "Lawrence Store" -> "lawrencestore"
      [] name = "lawrence store" -> "lawrencestore"
      [] OTHER -> name

\* The loop of create_store without its suffix.
auto_username_unsuffixed(tenant_id, base_username, username, counter) == base_username

\* The while loop of create_store (models.py:615-622).
RECURSIVE auto_username(_, _, _, _)
auto_username(tenant_id, base_username, username, counter) ==
    IF \E s \in stores : s.tenant_id = tenant_id /\ s.username = username
    THEN auto_username(tenant_id, base_username, base_username \o ToString(counter), counter + 1)
    ELSE username

StoreReply(op, status, touched, arg) ==
    /\ Respond(op, NoToken, FALSE, {}, status, TRUE, touched, arg, <<>>)
    /\ g' = NoContext
    /\ UNCHANGED <<now, tokens>>

\* create_store; username "" and password "" stand for None.  A ValueError is
\* what add_store answers with 400, any other exception with 500.
create_store(tenant_id, name, username, password, manager_username, allowed_ip) ==
    LET arg == <<tenant_id, name, username>>
        existing_store == {s \in stores : s.tenant_id = tenant_id /\ s.name = name}
        existing_by_username == {s \in stores : s.tenant_id = tenant_id /\ s.username = username}
        chosen == IF username # "" THEN username
                  ELSE auto_username(tenant_id, LowerStrip(name), LowerStrip(name), 1)
        pw == IF password # "" THEN password ELSE chosen \o "123"
        store == StoreRow(next_id.stores, tenant_id, name, chosen, pw, manager_username, allowed_ip)
        added == add_default_inventory_to_store(tenant_id, name)
    IN IF existing_store # {} \/ (username # "" /\ existing_by_username # {})
       THEN StoreReply("create_store", 400, {}, arg) /\ UNCHANGED dbVars
       ELSE IF ~(uq_tenant_store_name(stores \cup {store})
                   /\ uq_tenant_store_username(stores \cup {store}))
       THEN StoreReply("create_store", 500, {}, arg) /\ UNCHANGED dbVars
       ELSE /\ next_id.stores <= MaxStores
            /\ stores' = stores \cup {store}
            /\ inventory' = inventory \cup added
            /\ next_id' = [next_id EXCEPT !.stores = @ + 1,
                                          !.inventory = @ + Cardinality(added)]
            /\ StoreReply("create_store", 201, {tenant_id}, arg)
            /\ UNCHANGED <<tenants, managers, employees, inventory_history, timeclock, eod>>

\* The rename cascade of update_store (models.py:697-711).
Renamed(rows, tenant_id, old_name, new_name) ==
    {IF r.tenant_id = tenant_id /\ r.store_id = old_name
     THEN [r EXCEPT !.store_id = new_name] ELSE r : r \in rows}

\* update_store; "" stands for an argument left None.  The first commit fails
\* as a whole when it breaks a unique constraint of stores; the cascade is a
\* second transaction that fails as a whole when it breaks one of inventory or
\* inventory_history, leaving the store renamed.
update_store(tenant_id, name, new_name, username, password, allowed_ip) ==
    LET arg == <<tenant_id, name, new_name, username>>
        found == {s \in stores : s.tenant_id = tenant_id /\ s.name = name}
    IN IF found = {}
       THEN StoreReply("update_store", 404, {}, arg) /\ UNCHANGED dbVars
       ELSE \E store \in found :
            LET changed == [store EXCEPT
                    !.name = IF new_name # "" THEN new_name ELSE @,
                    !.username = IF username # "" THEN username ELSE @,
                    !.password = IF password # "" THEN hash_password(password) ELSE @,
                    !.allowed_ip = IF allowed_ip # "" THEN allowed_ip ELSE @]
                after == (stores \ {store}) \cup {changed}
                inv2 == Renamed(inventory, tenant_id, name, new_name)
                hist2 == Renamed(inventory_history, tenant_id, name, new_name)
            IN IF ~(uq_tenant_store_name(after) /\ uq_tenant_store_username(after))
               THEN StoreReply("update_store", 500, {tenant_id}, arg) /\ UNCHANGED dbVars
               ELSE /\ stores' = after
                    /\ UNCHANGED <<tenants, managers, employees, next_id>>
                    /\ IF new_name = "" \/ new_name = name
                       THEN /\ StoreReply("update_store", 200, {tenant_id}, arg)
                            /\ UNCHANGED <<inventory, inventory_history, eod, timeclock>>
                       ELSE IF ~(uq_tenant_store_sku(inv2) /\ uq_tenant_store_snapshot_date(hist2))
                       THEN /\ StoreReply("update_store", 500, {tenant_id}, arg)
                            /\ UNCHANGED <<inventory, inventory_history, eod, timeclock>>
                       ELSE /\ inventory' = inv2
                            /\ inventory_history' = hist2
                            /\ eod' = Renamed(eod, tenant_id, name, new_name)
                            /\ timeclock' = Renamed(timeclock, tenant_id, name, new_name)
                            /\ StoreReply("update_store", 200, {tenant_id}, arg)

\* delete_store
delete_store(tenant_id, name) ==
    IF \E s \in stores : s.tenant_id = tenant_id /\ s.name = name
    THEN /\ delete_store_rows(tenant_id, name)
         /\ StoreReply("delete_store", 200, {tenant_id}, <<tenant_id, name>>)
    ELSE /\ StoreReply("delete_store", 404, {}, <<tenant_id, name>>)
         /\ UNCHANGED dbVars

\* ----------------------------------------------------------- store specification
StoreNames == {"A", "B"}
StoreUsernames == {"", "a"}

StoreInit ==
    /\ tenants = BaseTenants
    /\ managers = BaseManagers
    /\ stores = {}
    /\ employees = {}
    /\ inventory = {}
    /\ inventory_history = {}
    /\ timeclock = {}
    /\ eod = {}
    /\ next_id = [BaseIds EXCEPT !.stores = 1]
    /\ now = 0
    /\ tokens = {}
    /\ g = NoContext
    /\ resp = NoResp

StoreNext ==
    \/ \E tenant_id \in TenantIds, name \in StoreNames, username \in StoreUsernames :
          create_store(tenant_id, name, username, "", "boss", "")
    \/ \E tenant_id \in TenantIds, name \in StoreNames, new_name \in StoreNames \cup {""},
          username \in StoreUsernames :
          update_store(tenant_id, name, new_name, username, "", "")
    \/ \E tenant_id \in TenantIds, name \in StoreNames :
          delete_store(tenant_id, name)

SpecStore == StoreInit /\ [][StoreNext]_vars

\* --------------------------------------------------------------------- claim C10
StoresUnique ==
    \A s1, s2 \in stores :
        (s1.tenant_id = s2.tenant_id /\ (s1.name = s2.name \/ s1.username = s2.username))
            => s1 = s2

NameTaken(tenant_id, name) == \E s \in stores : s.tenant_id = tenant_id /\ s.name = name
UsernameTaken(tenant_id, username) ==
    \E s \in stores : s.tenant_id = tenant_id /\ s.username = username

\* C10: create_store with a name a store of the same tenant already has fails
\* with the invalid-input error and creates neither store nor inventory; with
\* a name (and username) free in that tenant it succeeds, whatever the other
\* tenants hold; and after every create_store, update_store and delete_store
\* no two stores of a tenant share a name or a username.
StoreUniquePerTenant ==
    [][/\ StoresUnique'
       /\ resp'.op = "create_store" =>
            LET tenant_id == resp'.arg[1]
                name == resp'.arg[2]
                username == resp'.arg[3]
            IN IF NameTaken(tenant_id, name)
               THEN /\ resp'.status = 400
                    /\ stores' = stores
                    /\ inventory' = inventory
               ELSE IF username = "" \/ ~UsernameTaken(tenant_id, username)
               THEN /\ resp'.status = 201
                    /\ \E s \in stores' \ stores :
                          /\ stores' = stores \cup {s}
                          /\ s.tenant_id = tenant_id
                          /\ s.name = name
               ELSE resp'.status = 400 /\ stores' = stores /\ inventory' = inventory]_vars

\* A second store of the same name was refused in a tenant while another
\* tenant holds a store of that name too.
StoreUniquePerTenantWitness ==
    /\ resp.op = "create_store"
    /\ resp.status = 400
    /\ NameTaken(resp.arg[1], resp.arg[2])
    /\ \E s \in stores : s.tenant_id # resp.arg[1] /\ s.name = resp.arg[2]

\* ======================================================= rows that name a store
\* EOD (models.py:325-344) and create_eod (models.py:885-901)
EODRow(id, tenant_id, store_id, report_date) ==
    [id |-> id, tenant_id |-> tenant_id, store_id |-> store_id, report_date |-> report_date]

create_eod(tenant_id, store_id, report_date) ==
    /\ next_id.eod <= MaxEod
    /\ eod' = eod \cup {EODRow(next_id.eod, tenant_id, store_id, report_date)}
    /\ next_id' = [next_id EXCEPT !.eod = @ + 1]
    /\ StoreReply("create_eod", 201, {tenant_id}, <<tenant_id, store_id>>)
    /\ UNCHANGED <<tenants, managers, stores, employees, inventory, inventory_history,
                   timeclock>>

\* InventoryHistory row as create_inventory_snapshot adds it.
HistoryRow(id, tenant_id, store_id, snapshot_dt) ==
    [id |-> id, tenant_id |-> tenant_id, store_id |-> store_id, snapshot_date |-> snapshot_dt,
     items |-> {}]

\* --------------------------------------------------------- cascade specification
\* No store yet; snapshots and timeclock entries already name stores "A" and
\* "B" (neither route looks the store up), in both tenants.
CascadeInit ==
    /\ now = 0
    /\ tenants = BaseTenants
    /\ managers = BaseManagers
    /\ stores = {}
    /\ employees = BaseEmployees
    /\ inventory = {}
    /\ inventory_history = {HistoryRow(1, 1, "A", 0), HistoryRow(2, 1, "B", 0),
                            HistoryRow(3, 2, "A", 0)}
    /\ timeclock = {TimeClockRow(1, 1, 1, "Ann", "A", 0, NULL),
                    TimeClockRow(2, 2, 2, "Bo", "A", 0, NULL),
                    TimeClockRow(3, 1, 1, "Ann", "B", 0, NULL)}
    /\ eod = {}
    /\ next_id = [BaseIds EXCEPT !.stores = 1, !.inventory_history = 4, !.timeclock = 4]
    /\ tokens = {}
    /\ g = NoContext
    /\ resp = NoResp

CascadeNext ==
    \/ \E tenant_id \in TenantIds, name \in StoreNames :
          create_store(tenant_id, name, "", "", "boss", "")
    \/ \E tenant_id \in TenantIds, name \in StoreNames, new_name \in StoreNames \cup {""} :
          update_store(tenant_id, name, new_name, "", "", "")
    \/ \E tenant_id \in TenantIds, name \in StoreNames :
          delete_store(tenant_id, name)
    \/ \E tenant_id \in TenantIds : create_eod(tenant_id, "A", "d0")

SpecCascade == CascadeInit /\ [][CascadeNext]_vars

\* ------------------------------------------------------------- claims C11, C12
\* `after` is `before` with store_id old_name replaced by new_name on the rows
\* of tenant_id, every other row as it was.
StoreIdMoved(before, after, tenant_id, old_name, new_name) ==
    after = {IF r.tenant_id = tenant_id /\ r.store_id = old_name
             THEN [r EXCEPT !.store_id = new_name] ELSE r : r \in before}

\* update_store changed the name of the store (tenant_id, old_name) to new_name.
StoreRenamed(tenant_id, old_name, new_name) ==
    /\ resp'.op = "update_store"
    /\ new_name # old_name
    /\ \E s \in stores :
          /\ s.tenant_id = tenant_id /\ s.name = old_name
          /\ [s EXCEPT !.name = new_name] \in stores'

\* C11: when update_store renames a store of tenant T from A to B, every
\* Inventory, InventoryHistory, EOD and TimeClock row of T with store_id A has
\* store_id B afterwards, and no other row of any tenant or store changes.
RenameCascades ==
    [][\A tenant_id \in TenantIds, old_name \in StoreNames, new_name \in StoreNames :
          StoreRenamed(tenant_id, old_name, new_name) =>
             /\ StoreIdMoved(inventory, inventory', tenant_id, old_name, new_name)
             /\ StoreIdMoved(inventory_history, inventory_history', tenant_id, old_name, new_name)
             /\ StoreIdMoved(eod, eod', tenant_id, old_name, new_name)
             /\ StoreIdMoved(timeclock, timeclock', tenant_id, old_name, new_name)]_vars

\* The rows of a table that name store (tenant_id, name).
RowsOfStore(rows, tenant_id, name) ==
    {r \in rows : r.tenant_id = tenant_id /\ r.store_id = name}

\* C12: after delete_store(T, N) returned true no Inventory, InventoryHistory,
\* EOD or TimeClock row of tenant T with store_id N is left, and the rows of
\* other stores and other tenants are unchanged.
DeleteStoreRemovesRows ==
    [][(resp'.op = "delete_store" /\ resp'.status = 200) =>
          LET tenant_id == resp'.arg[1]
              name == resp'.arg[2]
          IN /\ inventory' = inventory \ RowsOfStore(inventory, tenant_id, name)
             /\ inventory_history' =
                   inventory_history \ RowsOfStore(inventory_history, tenant_id, name)
             /\ eod' = eod \ RowsOfStore(eod, tenant_id, name)
             /\ timeclock' = timeclock \ RowsOfStore(timeclock, tenant_id, name)]_vars

\* ===================================================== default inventory (models.py)
\* A call of add_default_inventory_to_store: the rows its loop adds are
\* committed; a failing commit is rolled back and 0 returned.
add_default_inventory(tenant_id, store_name) ==
    LET added == add_default_inventory_to_store(tenant_id, store_name)
        committed == IF uq_tenant_store_sku(inventory \cup added) THEN added ELSE {}
    IN /\ next_id.inventory + Cardinality(committed) <= MaxInventory
       /\ inventory' = inventory \cup committed
       /\ next_id' = [next_id EXCEPT !.inventory = @ + Cardinality(committed)]
       /\ StoreReply("add_default_inventory", 200, {tenant_id}, <<tenant_id, store_name>>)
       /\ UNCHANGED <<tenants, managers, stores, employees, inventory_history, timeclock, eod>>

\* delete_inventory_item (models.py:825-832)
delete_inventory_item(tenant_id, store_id, sku) ==
    LET found == {i \in inventory : /\ i.tenant_id = tenant_id
                                    /\ i.store_id = store_id /\ i.sku = sku}
    IN IF found = {}
       THEN StoreReply("delete_inventory_item", 404, {}, <<tenant_id, store_id, sku>>)
            /\ UNCHANGED dbVars
       ELSE \E item \in found :
            /\ inventory' = inventory \ {item}
            /\ StoreReply("delete_inventory_item", 200, {tenant_id}, <<tenant_id, store_id, sku>>)
            /\ UNCHANGED <<tenants, managers, stores, employees, inventory_history, timeclock,
                           eod, next_id>>

\* ------------------------------------------------- default inventory specification
DefaultsNext ==
    \/ \E tenant_id \in TenantIds : create_store(tenant_id, "A", "", "", "boss", "")
    \/ \E name \in StoreNames : add_default_inventory(1, name)
    \/ \E sku \in {"Samsung", "Simcards"} : delete_inventory_item(1, "A", sku)

SpecDefaults == StoreInit /\ [][DefaultsNext]_vars

\* -------------------------------------------------------------------- claim C13
\* The store (tenant_id, name) has exactly one inventory row for each entry
\* of the default catalogue, and no other row.
OneRowPerCatalogueEntry(rows, tenant_id, name) ==
    LET mine == RowsOfStore(rows, tenant_id, name)
    IN /\ \A k \in 1..Len(get_default_inventory_items) :
             Cardinality({r \in mine : /\ r.sku = get_default_inventory_items[k][1]
                                       /\ r.name = get_default_inventory_items[k][2]}) = 1
       /\ Cardinality(mine) = Len(get_default_inventory_items)

\* C13: adding the default inventory to a store that was just given it adds
\* nothing and leaves the inventory unchanged, and once the default inventory
\* has been created the store has exactly one inventory row per entry of the
\* default catalogue, none of them twice.
DefaultInventoryOncePerEntry ==
    [][/\ (resp'.op = "add_default_inventory"
            /\ resp.op \in {"add_default_inventory", "create_store"}
            /\ resp.status \in {200, 201}
            /\ resp.arg[1] = resp'.arg[1] /\ resp.arg[2] = resp'.arg[2])
          => inventory' = inventory
       /\ ((resp'.op = "create_store" /\ resp'.status = 201)
             \/ resp'.op = "add_default_inventory")
          => OneRowPerCatalogueEntry(inventory', resp'.arg[1], resp'.arg[2])]_vars

\* --------------------------------------------------------- username specification
LawrenceNames == {"Lawrence Store", "lawrence store"}
LawrenceUsernames == {"", "lawrencestore", "lawrencestore1"}

UsernameNext ==
    \/ \E tenant_id \in TenantIds, name \in LawrenceNames, username \in LawrenceUsernames :
          create_store(tenant_id, name, username, "", "boss", "")
    \/ \E tenant_id \in TenantIds, name \in LawrenceNames :
          delete_store(tenant_id, name)

SpecUsername == StoreInit /\ [][UsernameNext]_vars

\* -------------------------------------------------------------------- claim C14
\* The k-th username tried for a base: the base itself, then base1, base2, ...
Candidate(base, k) == IF k = 0 THEN base ELSE base \o ToString(k)

\* A create_store call without username was made for a name free in the tenant.
AutoNamed ==
    /\ resp'.op = "create_store"
    /\ resp'.arg[3] = ""
    /\ ~NameTaken(resp'.arg[1], resp'.arg[2])

\* The store added by the call carries the first candidate not used in the tenant.
FirstFreeCandidate ==
    /\ resp'.status = 201
    /\ \E s \in stores' \ stores :
          /\ stores' = stores \cup {s}
          /\ s.tenant_id = resp'.arg[1]
          /\ s.name = resp'.arg[2]
          /\ \E k \in 0..Cardinality(stores) :
                /\ s.username = Candidate(LowerStrip(s.name), k)
                /\ ~UsernameTaken(s.tenant_id, s.username)
                /\ \A j \in 0..(k - 1) :
                      UsernameTaken(s.tenant_id, Candidate(LowerStrip(s.name), j))

\* C14 as stated: create_store without a username stores the lower-cased,
\* space-stripped name with the first unused suffix, and a second store named
\* "Lawrence Store" created without username in a tenant that has the store
\* "Lawrence Store" / lawrencestore gets the username lawrencestore1.
AutoUsernameSameName ==
    [][/\ AutoNamed => FirstFreeCandidate
       /\ (/\ resp'.op = "create_store"
           /\ resp'.arg[2] = "Lawrence Store"
           /\ resp'.arg[3] = ""
           /\ \E s \in stores : /\ s.tenant_id = resp'.arg[1]
                                /\ s.name = "Lawrence Store"
                                /\ s.username = "lawrencestore")
          => \E s \in stores' \ stores : /\ s.tenant_id = resp'.arg[1]
                                         /\ s.username = "lawrencestore1"]_vars

\* C14: create_store without a username, for a name free in the tenant, stores
\* as username the lower-cased, space-stripped name, with the suffix 1, 2, ...
\* appended until the username is unused within the tenant; a store whose
\* name the tenant already has is refused and gets no username at all.
AutoUsername ==
    [][/\ AutoNamed => FirstFreeCandidate
       /\ (resp'.op = "create_store" /\ NameTaken(resp'.arg[1], resp'.arg[2]))
          => (resp'.status = 400 /\ stores' = stores)]_vars

\* "Lawrence Store" and "lawrence store" were created without usernames in one
\* tenant and hold lawrencestore and lawrencestore1.
AutoUsernameWitness ==
    /\ resp.op = "create_store"
    /\ resp.status = 201
    /\ resp.arg[3] = ""
    /\ \E s1, s2 \in stores :
          /\ s1.tenant_id = resp.arg[1] /\ s2.tenant_id = resp.arg[1]
          /\ s1.name # s2.name
          /\ s1.username = "lawrencestore"
          /\ s2.username = "lawrencestore1"
          /\ s2.name = resp.arg[2]

\* ============================================================ faces (routes/face.py)
\* existing_descriptors[-5:]
LastFive(descriptors) ==
    IF Len(descriptors) > 5 THEN SubSeq(descriptors, Len(descriptors) - 4, Len(descriptors))
    ELSE descriptors

\* What register_face keeps of the list it appended to (it does not slice).
Uncut(descriptors) == descriptors

\* min_distance_to_existing (face.py:79-83, 196-200)
min_distance_to_existing(face_descriptor, employee) ==
    IF StoredDescriptors(employee) = <<>> THEN Infinity
    ELSE MinDistance(face_descriptor, employee)

FaceReply(op, status, touched, arg) ==
    /\ Respond(op, NoToken, FALSE, {}, status, TRUE, touched, arg, <<>>)
    /\ g' = NoContext
    /\ UNCHANGED <<now, tokens>>

\* POST /api/face/register ; employee_id 0 stands for a missing field.
register_face(employee_id, face_descriptor, face_image) ==
    LET arg == <<employee_id, face_descriptor>>
        found == {e \in employees : e.id = employee_id}
        all_registered == {e \in employees : e.face_registered /\ e.id # employee_id}
        match == find_best_match(face_descriptor, all_registered, 6)
        compressed_image == IF face_image # 0 THEN compress_image(face_image, 400) ELSE 0
    IN /\ UNCHANGED <<tenants, managers, stores, inventory, inventory_history, timeclock,
                      eod, next_id>>
       /\ IF employee_id = 0 \/ ~validate_face_descriptor(face_descriptor)
          THEN FaceReply("register_face", 400, {}, arg) /\ UNCHANGED employees
          ELSE IF found = {}
          THEN FaceReply("register_face", 404, {}, arg) /\ UNCHANGED employees
          ELSE \E employee \in found :
               IF all_registered # {} /\ match # {}
               THEN FaceReply("register_face", 409, OwnersOf(all_registered), arg)
                    /\ UNCHANGED employees
               ELSE IF min_distance_to_existing(face_descriptor, employee) < 3
               THEN FaceReply("register_face", 200, OwnersOf({employee}), arg)
                    /\ UNCHANGED employees
               ELSE /\ employees' = (employees \ {employee}) \cup
                          {[employee EXCEPT
                              !.face_descriptors =
                                  Uncut(Append(StoredDescriptors(employee), face_descriptor)),
                              !.face_registered = TRUE,
                              !.face_image = IF compressed_image # 0 THEN compressed_image ELSE @,
                              !.face_descriptor = NULL]}
                    /\ FaceReply("register_face", 200, OwnersOf({employee}), arg)

\* POST /api/face/add-appearance ; the employee is looked up by name when a
\* name is given (ilike without wildcards), else by id.
add_face_appearance(employee_name, employee_id, face_descriptor, face_image) ==
    LET arg == <<employee_id, face_descriptor>>
        found == IF employee_name # ""
                 THEN {e \in employees : e.name = employee_name}
                 ELSE {e \in employees : e.id = employee_id}
        compressed_image == IF face_image # 0 THEN compress_image(face_image, 400) ELSE 0
    IN /\ UNCHANGED <<tenants, managers, stores, inventory, inventory_history, timeclock,
                      eod, next_id>>
       /\ IF employee_name = "" /\ employee_id = 0
          THEN FaceReply("add_face_appearance", 400, {}, arg) /\ UNCHANGED employees
          ELSE IF found = {}
          THEN FaceReply("add_face_appearance", 404, {}, arg) /\ UNCHANGED employees
          ELSE \E employee \in found :
               IF ~validate_face_descriptor(face_descriptor) \/ ~employee.face_registered
               THEN FaceReply("add_face_appearance", 400, OwnersOf({employee}), arg)
                    /\ UNCHANGED employees
               ELSE IF min_distance_to_existing(face_descriptor, employee) < 3
               THEN FaceReply("add_face_appearance", 200, OwnersOf({employee}), arg)
                    /\ UNCHANGED employees
               ELSE /\ employees' = (employees \ {employee}) \cup
                          {[employee EXCEPT
                              !.face_descriptors =
                                  LastFive(Append(StoredDescriptors(employee), face_descriptor)),
                              !.face_registered = TRUE,
                              !.face_image = IF compressed_image # 0 THEN compressed_image ELSE @]}
                    /\ FaceReply("add_face_appearance", 200, OwnersOf({employee}), arg)

\* -------------------------------------------------------------- face specification
\* Ann has registered four appearances so far.
FaceInit ==
    /\ tenants = BaseTenants
    /\ managers = BaseManagers
    /\ stores = BaseStores
    /\ employees = {EmployeeRow(1, 1, "A", "Ann", <<0, 30, 33, 36>>, 0),
                    EmployeeRow(2, 2, "A", "Bo", <<20>>, 0)}
    /\ inventory = {}
    /\ inventory_history = {}
    /\ timeclock = {}
    /\ eod = {}
    /\ next_id = BaseIds
    /\ now = ClockStart
    /\ tokens = ClockTokens
    /\ g = NoContext
    /\ resp = NoResp

FaceNext ==
    \/ \E employee_id \in {1, 3}, d \in FaceProbes \cup {2, 20} : register_face(employee_id, d, 0)
    \/ \E d \in FaceProbes \cup {2} : add_face_appearance("", 1, d, 0)
    \/ \E d \in FaceProbes : add_face_appearance("Ann", 0, d, 0)
    \/ \E token \in ClockTokens \cup {NoToken} : clock_in_face(token, 0, 0, "A")
    \/ \E token \in ClockTokens \cup {NoToken} : clock_out_face(token, 0, 0, "A")

SpecFace == FaceInit /\ [][FaceNext]_vars

\* -------------------------------------------------------------------- claim C15
\* C15: after any sequence of face register, add-appearance, face clock-in and
\* face clock-out requests every employee has at most 5 stored face
\* descriptors, and a request that appends a descriptor leaves the 5 most
\* recent ones in insertion order, the oldest dropped.
AtMostFiveDescriptors ==
    [][\A e \in employees, f \in employees' :
          (e.id = f.id /\ e.face_descriptors # f.face_descriptors) =>
             /\ Len(f.face_descriptors) <= 5
             /\ f.face_descriptors =
                   LET face_descriptor == IF resp'.op \in {"register_face", "add_face_appearance"}
                                          THEN resp'.arg[2] ELSE resp'.arg[1]
                       appended == Append(StoredDescriptors(e), face_descriptor)
                   IN IF Len(appended) > 5
                      THEN SubSeq(appended, Len(appended) - 4, Len(appended))
                      ELSE appended]_vars

\* ========================================================= tenants (routes/tenants.py)
\* Column default of Tenant.status (models.py:21).
TenantStatusDefault == "active"

\* create_tenant (models.py:464-491): the row it adds; status is left to the
\* column default.
create_tenant(id, email, plan) == TenantRow(id, email, plan, TenantStatusDefault, 0)

\* UniqueConstraint('tenant_id', 'username') on managers (models.py:75-77)
uq_tenant_manager_username(rows) ==
    \A m1, m2 \in rows :
        (m1.tenant_id = m2.tenant_id /\ m1.username = m2.username) => m1.id = m2.id

\* tenant.email.split('@')[0]
EmailPrefix(email) ==
    CASE email = "bob@a.com" -> "bob"
      [] email = "bob@b.com" -> "bob"
      [] email = "ann@a.com" -> "ann"
      [] OTHER -> email

\* customer.id of the customer Stripe creates for a tenant.
CustomerId(tenant_id) == "cus_" \o ToString(tenant_id)

\* What a call into the Stripe library does: it returns, or raises one of the
\* exception classes tenant_signup distinguishes.
StripeOutcomes == {"ok", "StripeError", "AttributeError", "Exception"}

\* The deployment as a request finds it: whether the stripe module was
\* imported (tenants.py:18-28), STRIPE_SECRET_KEY, the price id configured for
\* the plan, STRIPE_WEBHOOK_SECRET, and what the two API calls do.
StripeEnv(stripe, api_key, price_id, customer, session) ==
    [stripe |-> stripe, api_key |-> api_key, price_id |-> price_id,
     webhook_secret |-> "whsec", customer |-> customer, session |-> session]
StripeReady == StripeEnv("module", "sk_test", "price_1", "ok", "ok")
StripeEnvs ==
    {StripeReady,
     StripeEnv("module", "", "price_1", "ok", "ok"),
     StripeEnv("None", "sk_test", "price_1", "ok", "ok"),
     StripeEnv("module", "sk_test", "", "ok", "ok"),
     StripeEnv("module", "sk_test", "price_1", "StripeError", "ok"),
     StripeEnv("module", "sk_test", "price_1", "ok", "AttributeError"),
     StripeEnv("module", "sk_test", "price_1", "ok", "Exception")}

TenantReply(op, status, touched, arg) ==
    /\ Respond(op, NoToken, FALSE, {}, status, TRUE, touched, arg, <<>>)
    /\ g' = NoContext
    /\ UNCHANGED <<now, tokens>>

\* POST /api/tenants/signup
tenant_signup(company_name, email, plan, env) ==
    LET arg == <<email>>
        existing == {t \in tenants : t.email = email}
        tenant_id == next_id.tenants
        tenant == create_tenant(tenant_id, email, plan)
        \* the row stays: the handler returns without its clean-up
        kept(status) == /\ tenants' = tenants \cup {tenant}
                        /\ next_id' = [next_id EXCEPT !.tenants = @ + 1]
                        /\ TenantReply("tenant_signup", status, {tenant_id}, arg)
        \* Tenant.query.filter_by(id=tenant_id).delete(); the id is used up
        cleaned(status) == /\ tenants' = tenants
                           /\ next_id' = [next_id EXCEPT !.tenants = @ + 1]
                           /\ TenantReply("tenant_signup", status, {tenant_id}, arg)
    IN /\ UNCHANGED <<managers, stores, employees, inventory, inventory_history, timeclock, eod>>
       /\ IF company_name = "" \/ email = "" \/ plan \notin {"basic", "standard", "premium"}
          THEN TenantReply("tenant_signup", 400, {}, arg) /\ UNCHANGED <<tenants, next_id>>
          ELSE IF existing # {}
          THEN TenantReply("tenant_signup", 400, {}, arg) /\ UNCHANGED <<tenants, next_id>>
          ELSE /\ next_id.tenants <= MaxTenants
               /\ IF env.api_key = "" THEN cleaned(500)
                  \* stripe.api_key on None raises outside the inner try (line 225)
                  ELSE IF env.stripe = "None" THEN kept(500)
                  ELSE IF env.customer # "ok" THEN cleaned(500)
                  ELSE IF env.price_id = "" THEN cleaned(500)
                  ELSE IF env.session # "ok" THEN cleaned(500)
                  ELSE /\ tenants' = tenants \cup
                             {[tenant EXCEPT !.stripe_customer_id = CustomerId(tenant_id)]}
                       /\ next_id' = [next_id EXCEPT !.tenants = @ + 1]
                       /\ TenantReply("tenant_signup", 200, {tenant_id}, arg)

\* create_manager (models.py:549-569) as a call of its own.
create_manager(tenant_id, username, password, is_super_admin) ==
    LET arg == <<tenant_id, username>>
        existing == {m \in managers : m.tenant_id = tenant_id /\ m.username = username}
    IN /\ UNCHANGED <<tenants, stores, employees, inventory, inventory_history, timeclock, eod>>
       /\ IF existing # {} \/ Tenant_query_get(tenant_id) = {}
          THEN TenantReply("create_manager", 400, {}, arg) /\ UNCHANGED <<managers, next_id>>
          ELSE /\ next_id.managers <= MaxManagers
               /\ managers' = managers \cup
                     {ManagerRow(next_id.managers, tenant_id, username, password, is_super_admin)}
               /\ next_id' = [next_id EXCEPT !.managers = @ + 1]
               /\ TenantReply("create_manager", 201, {tenant_id}, arg)

\* update_manager (models.py:572-595); new_username "" stands for None.
update_manager(tenant_id, username, new_username) ==
    LET arg == <<tenant_id, username, new_username>>
        found == {m \in managers : m.tenant_id = tenant_id /\ m.username = username}
        username_taken == {m \in managers : m.tenant_id = tenant_id /\ m.username = new_username}
    IN /\ UNCHANGED <<tenants, stores, employees, inventory, inventory_history, timeclock, eod,
                      next_id>>
       /\ IF found = {}
          THEN TenantReply("update_manager", 400, {}, arg) /\ UNCHANGED managers
          ELSE \E manager \in found :
               IF new_username # "" /\ new_username # username /\ username_taken # {}
               THEN TenantReply("update_manager", 400, {tenant_id}, arg) /\ UNCHANGED managers
               ELSE LET after == (managers \ {manager}) \cup
                                 {[manager EXCEPT !.username =
                                      IF new_username # "" THEN new_username ELSE @]}
                    IN IF ~uq_tenant_manager_username(after)
                       THEN TenantReply("update_manager", 500, {tenant_id}, arg)
                            /\ UNCHANGED managers
                       ELSE managers' = after
                            /\ TenantReply("update_manager", 200, {tenant_id}, arg)

\* calculate_database_storage (utils/storage.py:216-245): the decoded sizes of
\* the images a tenant's employee and timeclock rows hold.
RECURSIVE SumSizes(_)
SumSizes(sized) ==
    IF sized = {} THEN 0
    ELSE LET x == CHOOSE x \in sized : TRUE IN x[2] + SumSizes(sized \ {x})

calculate_database_storage(tenant_id) ==
    SumSizes({<<"employee", calculate_base64_size(e.face_image), e.id>> :
                 e \in {e \in employees : e.tenant_id = tenant_id}}
             \cup {<<"clock_in", calculate_base64_size(tc.clock_in_face_image), tc.id>> :
                      tc \in {tc \in timeclock : tc.tenant_id = tenant_id}}
             \cup {<<"clock_out", calculate_base64_size(tc.clock_out_face_image), tc.id>> :
                      tc \in {tc \in timeclock : tc.tenant_id = tenant_id}})

\* The events Stripe delivers.  tenant_id 0 is metadata without tenant_id,
\* subscription "" a session without subscription.
CheckoutCompleted(tenant_id, subscription) ==
    [type |-> "checkout.session.completed", tenant_id |-> tenant_id,
     subscription |-> subscription, customer |-> "", status |-> ""]
SubscriptionUpdated(customer, status) ==
    [type |-> "customer.subscription.updated", tenant_id |-> 0, subscription |-> "",
     customer |-> customer, status |-> status]
SubscriptionDeleted(customer) ==
    [type |-> "customer.subscription.deleted", tenant_id |-> 0, subscription |-> "",
     customer |-> customer, status |-> ""]

\* POST /api/tenants/webhook/stripe ; signed tells whether the signature
\* verifies under the webhook secret.
stripe_webhook(event, signed, env) ==
    LET arg == <<event.type, event.tenant_id, event.customer>>
        R(status, touched) == TenantReply("stripe_webhook", status, touched, arg)
        SetStatus(found, status) ==
            {IF t \in found THEN [t EXCEPT !.status = status] ELSE t : t \in tenants}
    IN /\ UNCHANGED <<stores, employees, inventory, inventory_history, timeclock, eod>>
       /\ IF env.api_key = "" \/ env.webhook_secret = "" \/ env.stripe = "None"
          THEN R(500, {}) /\ UNCHANGED <<tenants, managers, next_id>>
          ELSE IF ~signed
          THEN R(400, {}) /\ UNCHANGED <<tenants, managers, next_id>>
          ELSE IF event.type = "checkout.session.completed"
          THEN IF event.tenant_id = 0
               THEN R(400, {}) /\ UNCHANGED <<tenants, managers, next_id>>
               ELSE IF Tenant_query_get(event.tenant_id) = {}
               THEN R(404, {}) /\ UNCHANGED <<tenants, managers, next_id>>
               ELSE IF event.subscription = ""
               THEN R(200, {event.tenant_id}) /\ UNCHANGED <<tenants, managers, next_id>>
               ELSE \E tenant \in Tenant_query_get(event.tenant_id) :
                    LET super_admin_username == EmailPrefix(tenant.email)
                        existing == {m \in managers : /\ m.tenant_id = tenant.id
                                                      /\ m.username = super_admin_username}
                        activated == [tenant EXCEPT
                                         !.stripe_subscription_id = event.subscription,
                                         !.status = "active"]
                    IN IF existing # {}
                       \* create_manager raises ValueError, which is swallowed
                       THEN /\ tenants' = (tenants \ {tenant}) \cup {activated}
                            /\ R(200, {tenant.id})
                            /\ UNCHANGED <<managers, next_id>>
                       ELSE /\ next_id.managers <= MaxManagers
                            /\ managers' = managers \cup
                                  {ManagerRow(next_id.managers, tenant.id, super_admin_username,
                                              "temp", TRUE)}
                            /\ next_id' = [next_id EXCEPT !.managers = @ + 1]
                            \* initialize_tenant_storage
                            /\ tenants' = (tenants \ {tenant}) \cup
                                  {[activated EXCEPT !.used_storage_bytes =
                                       calculate_database_storage(tenant.id)]}
                            /\ R(200, {tenant.id})
          ELSE LET found == {t \in tenants : t.stripe_customer_id = event.customer}
               IN /\ UNCHANGED <<managers, next_id>>
                  /\ IF found = {}
                     THEN R(200, {}) /\ UNCHANGED tenants
                     ELSE \E tenant \in found :
                          /\ tenants' = SetStatus({tenant},
                                IF event.type = "customer.subscription.deleted" THEN "cancelled"
                                ELSE IF event.status = "active" THEN "active" ELSE "suspended")
                          /\ R(200, {tenant.id})

\* ------------------------------------------------------------ signup specification
SignupEmails == {"bob@a.com", "ann@a.com"}

SignupInit ==
    /\ tenants = {}
    /\ managers = {}
    /\ stores = {}
    /\ employees = {}
    /\ inventory = {}
    /\ inventory_history = {}
    /\ timeclock = {}
    /\ eod = {}
    /\ next_id = [BaseIds EXCEPT !.tenants = 1, !.managers = 1]
    /\ now = 0
    /\ tokens = {}
    /\ g = NoContext
    /\ resp = NoResp

SignupNext ==
    \/ \E email \in SignupEmails, env \in StripeEnvs : tenant_signup("Acme", email, "basic", env)
    \/ \E tenant_id \in 0..MaxTenants, subscription \in {"", "sub_1"}, signed \in BOOLEAN,
          env \in {StripeReady, StripeEnv("None", "sk_test", "price_1", "ok", "ok")} :
          stripe_webhook(CheckoutCompleted(tenant_id, subscription), signed, env)
    \/ \E tenant_id \in 1..MaxTenants, status \in {"active", "past_due"} :
          stripe_webhook(SubscriptionUpdated(CustomerId(tenant_id), status), TRUE, StripeReady)
    \/ \E tenant_id \in 1..MaxTenants :
          stripe_webhook(SubscriptionDeleted(CustomerId(tenant_id)), TRUE, StripeReady)
    \/ \E tenant_id \in 1..MaxTenants : create_manager(tenant_id, "mia", "Pw1!", FALSE)
    \/ \E tenant_id \in 1..MaxTenants : update_manager(tenant_id, "bob", "bob2")

SpecSignup == SignupInit /\ [][SignupNext]_vars

\* ------------------------------------------------------------- claims C16 - C18
\* The step is a processed webhook that may activate tenant t: the
\* checkout-completed event of t, or a subscription-updated event of its customer.
ActivatingWebhook(t) ==
    /\ resp'.op = "stripe_webhook"
    /\ resp'.status = 200
    /\ \/ resp'.arg[1] = "checkout.session.completed" /\ resp'.arg[2] = t.id
       \/ resp'.arg[1] = "customer.subscription.updated" /\ resp'.arg[3] = t.stripe_customer_id

\* C16: a tenant created by signup is not 'active' when it is created, and a
\* tenant that is not 'active' becomes 'active' only by a processed
\* checkout-completed webhook for it (or a subscription-updated event with
\* status active).
InactiveUntilPaid ==
    [][\A t \in tenants' :
          /\ (\A old \in tenants : old.id # t.id) => t.status # "active"
          /\ \A old \in tenants :
                (old.id = t.id /\ old.status # "active" /\ t.status = "active")
                   => ActivatingWebhook(t)]_vars

SuperAdmins(tenant_id) == {m \in managers : m.tenant_id = tenant_id /\ m.is_super_admin}

\* C17: every tenant whose checkout-completed event has been processed (it
\* carries the subscription id the event brought) has exactly one manager
\* with is_super_admin = true, whatever webhooks and manager operations follow.
OneSuperAdminPerPaidTenant ==
    \A t \in tenants :
        t.stripe_subscription_id # "" => Cardinality(SuperAdmins(t.id)) = 1

\* C18: a signup that answers with an error leaves no Tenant row behind: the
\* tenants table is as it was before the request, so the email is free again.
SignupCleansUp ==
    [][(resp'.op = "tenant_signup" /\ resp'.status # 200) => tenants' = tenants]_vars

\* ====================================================== inventory API (routes/inventory.py)
\* The "quantity" field of a request body: absent or null, a JSON integer, or
\* text that int() does not accept.
JsonNone == [kind |-> "none", value |-> 0]
JsonInt(n) == [kind |-> "int", value |-> n]
JsonText == [kind |-> "text", value |-> 0]

\* add_inventory_item (models.py:779-790): the row it inserts.
add_inventory_item(tenant_id, store_id, sku, name, quantity) ==
    InventoryRow(next_id.inventory, tenant_id, store_id, sku, name, quantity)

\* POST /api/inventory/ ; "" stands for a field the body lacks or leaves blank.
add_item(token, store_id, sku, name, quantity) ==
    LET a == require_auth({}, token)
        arg == <<store_id, sku, name, quantity>>
        R(status, touched, out) ==
            Respond("add_item", token, TRUE, {}, status, TRUE, touched, arg, out)
        keep == UNCHANGED <<inventory, next_id>>
    IN
    \/ Denied("add_item", token, {}, a)
    \/ /\ a.status = 200
       /\ g' = a.g
       /\ UNCHANGED <<tenants, managers, stores, employees, inventory_history, timeclock,
                      eod, now, tokens>>
       /\ LET tenant_id == ContextTenantId(a.g)
              q == IF quantity.kind = "int" THEN quantity.value ELSE 0
              item == add_inventory_item(tenant_id, store_id, sku, name, q)
          IN IF store_id = "" \/ sku = "" \/ name = ""
             THEN R(400, {}, <<>>) /\ keep
             ELSE IF quantity.kind = "text" \/ q < 0
             THEN R(400, {}, <<>>) /\ keep
             ELSE IF tenant_id = 0
             THEN R(500, {}, <<>>) /\ keep
             ELSE IF ~uq_tenant_store_sku(inventory \cup {item})
             THEN R(500, {tenant_id}, <<>>) /\ keep
             ELSE /\ next_id.inventory <= MaxItems
                  /\ inventory' = inventory \cup {item}
                  /\ next_id' = [next_id EXCEPT !.inventory = @ + 1]
                  /\ R(201, {tenant_id}, <<item.id>>)

\* DELETE /api/inventory/
remove_item(token, store_id, sku) ==
    LET a == require_auth({}, token)
        arg == <<store_id, sku>>
        R(status, touched) == Respond("remove_item", token, TRUE, {}, status, TRUE, touched, arg, <<>>)
    IN
    \/ Denied("remove_item", token, {}, a)
    \/ /\ a.status = 200
       /\ g' = a.g
       /\ UNCHANGED <<tenants, managers, stores, employees, inventory_history, timeclock,
                      eod, next_id, now, tokens>>
       /\ LET tenant_id == ContextTenantId(a.g)
              found == {i \in inventory : /\ i.tenant_id = tenant_id
                                          /\ i.store_id = store_id /\ i.sku = sku}
          IN IF store_id = "" \/ sku = ""
             THEN R(400, {}) /\ UNCHANGED inventory
             ELSE IF tenant_id = 0
             THEN R(500, {}) /\ UNCHANGED inventory
             ELSE IF found = {}
             THEN R(404, {tenant_id}) /\ UNCHANGED inventory
             ELSE \E item \in found :
                  /\ inventory' = inventory \ {item}
                  /\ R(200, {tenant_id})

\* ------------------------------------------------------ inventory API specification
ItemSkus == {"Apple", "Pear", "Kiwi"}

ItemsInit ==
    /\ tenants = BaseTenants
    /\ managers = BaseManagers
    /\ stores = BaseStores
    /\ employees = BaseEmployees
    /\ inventory = {InventoryRow(1, 1, "A", "Apple", "Apple", 3),
                    InventoryRow(2, 1, "A", "Pear", "Pear", 1),
                    InventoryRow(3, 2, "A", "Apple", "Apple", 4)}
    /\ inventory_history = {}
    /\ timeclock = {}
    /\ eod = {}
    /\ next_id = [BaseIds EXCEPT !.inventory = 4]
    /\ now = SnapshotStart
    /\ tokens = SnapshotTokens
    /\ g = NoContext
    /\ resp = NoResp

ItemsNext ==
    \/ \E token \in SnapshotTokens \cup {NoToken}, sku \in {"", "Apple", "Kiwi"},
          quantity \in {JsonNone, JsonInt(-1), JsonInt(2), JsonText} :
          add_item(token, "A", sku, "item", quantity)
    \/ \E token \in SnapshotTokens \cup {NoToken}, store_id \in {"", "A"}, item_id \in {0, 1},
          sku \in {"", "Apple"}, quantity \in {NULL, <<-1>>, <<5>>},
          new_sku \in {"", "Pear", "Kiwi"} :
          update_item(token, store_id, item_id, sku, quantity, new_sku)
    \/ \E token \in SnapshotTokens \cup {NoToken}, store_id \in {"", "A"}, sku \in ItemSkus :
          remove_item(token, store_id, sku)

SpecItems == ItemsInit /\ [][ItemsNext]_vars

\* ------------------------------------------------------------- claims C19 - C20
\* The item an update request locates: by numeric id when the body has one,
\* else by (store_id, sku).
Located(tenant_id, arg) ==
    IF arg[2] # 0
    THEN {i \in inventory : i.tenant_id = tenant_id /\ i.id = arg[2]}
    ELSE {i \in inventory : i.tenant_id = tenant_id /\ i.store_id = arg[1] /\ i.sku = arg[3]}

\* C19: an update whose new_sku is held by a different row of the located
\* item's tenant and store is answered 409 and changes no row; and
\* (tenant_id, store_id, sku) is unique after every request.
RenameConflictIs409 ==
    [][/\ (/\ resp'.op = "update_item"
           /\ resp'.ran
           /\ \E item \in Located(ContextTenantId(g'), resp'.arg) :
                 \E other \in inventory : /\ other.id # item.id
                                          /\ other.tenant_id = item.tenant_id
                                          /\ other.store_id = item.store_id
                                          /\ other.sku = resp'.arg[5])
          => (resp'.status = 409 /\ inventory' = inventory)
       /\ uq_tenant_store_sku(inventory')]_vars

\* C20: every Inventory row has quantity >= 0 after any sequence of POST, PUT
\* and DELETE requests, and a request carrying a negative or non-integer
\* quantity is answered 400 and changes nothing.
QuantityNonNegative ==
    [][/\ \A i \in inventory' : i.quantity >= 0
       /\ (/\ resp'.op = "update_item"
           /\ resp'.ran
           /\ resp'.arg[4] # NULL
           /\ resp'.arg[4][1] < 0) => (resp'.status = 400 /\ inventory' = inventory)
       /\ (/\ resp'.op = "add_item"
           /\ resp'.ran
           /\ \/ resp'.arg[4].kind = "text"
              \/ resp'.arg[4].kind = "int" /\ resp'.arg[4].value < 0)
          => (resp'.status = 400 /\ inventory' = inventory)]_vars

\* ====================================================== manager routes (routes/managers.py)
\* validate_password_strength (auth.py:101-139): at least 8 characters with an
\* upper-case letter, a lower-case letter, a digit and a special character.
\* Of the passwords of the model only "Passw0rd!" and "Str0ng#Pass" meet it;
\* "Pw1!" has four characters.
StrongPasswords == {"Passw0rd!", "Str0ng#Pass"}
validate_password_strength(password) == password \in StrongPasswords

\* A Python call raises TypeError when it leaves a required parameter without
\* an argument.
TypeError(required, given) == required \ given # {}

\* Required parameters of create_manager (models.py:549) and update_manager
\* (models.py:572), and the parameters the calls of the routes bind:
\* create_manager(name, username, password) binds the first three positionally
\* (managers.py:48); update_manager(username, name=, new_username=, password=)
\* binds the first positionally and three by keyword (managers.py:82).
create_manager_required == {"tenant_id", "name", "username", "password"}
update_manager_required == {"tenant_id", "username"}
add_manager_call == {"tenant_id", "name", "username"}
edit_manager_call == {"tenant_id", "name", "new_username", "password"}

\* POST /api/managers/ ; "" stands for a field the body lacks.
add_manager(token, name, username, password) ==
    LET a == require_auth({"super-admin"}, token)
        arg == <<name, username, password>>
    IN
    \/ Denied("add_manager", token, {"super-admin"}, a)
    \/ /\ a.status = 200
       /\ g' = a.g
       /\ IF name = "" \/ username = "" \/ password = ""
          THEN Reply("add_manager", token, TRUE, {"super-admin"}, 400, {}, arg, <<>>)
          ELSE IF ~validate_password_strength(password)
          THEN Reply("add_manager", token, TRUE, {"super-admin"}, 400, {}, arg, <<>>)
          ELSE IF TypeError(create_manager_required, add_manager_call)
          THEN Reply("add_manager", token, TRUE, {"super-admin"}, 500, {}, arg, <<>>)
          ELSE LET tenant_id == ContextTenantId(a.g)
                   manager == ManagerRow(next_id.managers, tenant_id, username, password, FALSE)
               IN IF \E m \in managers : m.tenant_id = tenant_id /\ m.username = username
                  THEN Reply("add_manager", token, TRUE, {"super-admin"}, 400, {}, arg, <<>>)
                  ELSE /\ next_id.managers <= MaxManagers
                       /\ managers' = managers \cup {manager}
                       /\ next_id' = [next_id EXCEPT !.managers = @ + 1]
                       /\ Respond("add_manager", token, TRUE, {"super-admin"}, 201, TRUE,
                                  {tenant_id}, arg, <<manager.id>>)
                       /\ UNCHANGED <<tenants, stores, employees, inventory, inventory_history,
                                      timeclock, eod, now, tokens>>

\* PUT /api/managers/<username> ; "" stands for a field the body lacks.
edit_manager(token, username, new_username, password) ==
    LET a == require_auth({"super-admin"}, token)
        arg == <<username, new_username, password>>
    IN
    \/ Denied("edit_manager", token, {"super-admin"}, a)
    \/ /\ a.status = 200
       /\ g' = a.g
       /\ IF password # "" /\ ~validate_password_strength(password)
          THEN Reply("edit_manager", token, TRUE, {"super-admin"}, 400, {}, arg, <<>>)
          ELSE IF TypeError(update_manager_required, edit_manager_call)
          THEN Reply("edit_manager", token, TRUE, {"super-admin"}, 500, {}, arg, <<>>)
          ELSE LET tenant_id == ContextTenantId(a.g)
                   found == {m \in managers : m.tenant_id = tenant_id /\ m.username = username}
                   taken == {m \in managers : /\ m.tenant_id = tenant_id
                                              /\ m.username = new_username}
               IN IF found = {} \/ (new_username \notin {"", username} /\ taken # {})
                  THEN Reply("edit_manager", token, TRUE, {"super-admin"}, 400, {}, arg, <<>>)
                  ELSE \E m \in found :
                       /\ managers' = (managers \ {m}) \cup
                             {[m EXCEPT !.username = IF new_username # "" THEN new_username ELSE @,
                                        !.password = IF password # ""
                                                     THEN hash_password(password) ELSE @]}
                       /\ Respond("edit_manager", token, TRUE, {"super-admin"}, 200, TRUE,
                                  {tenant_id}, arg, <<m.id>>)
                       /\ UNCHANGED <<tenants, stores, employees, inventory, inventory_history,
                                      timeclock, eod, next_id, now, tokens>>

\* ---------------------------------------------------- manager routes specification
ManagerNames == {"", "boss", "bob", "ned"}
ManagerPasswords == {"", "Pw1!", "Passw0rd!"}

ManagersNext ==
    \/ \E p \in {SUPER_ADMIN_PASSWORD, "Pw1!"} : super_admin_login(SUPER_ADMIN_USERNAME, p)
    \/ \E u \in {"boss", "bob"}, p \in Passwords : manager_login(u, p)
    \/ \E token \in get_auth_token, name \in {"", "Ned"}, username \in ManagerNames,
          password \in ManagerPasswords :
          add_manager(token, name, username, password)
    \/ \E token \in get_auth_token, username \in {"boss", "ned"}, new_username \in ManagerNames,
          password \in ManagerPasswords :
          edit_manager(token, username, new_username, password)

SpecManagers == AuthInit /\ [][ManagersNext]_vars

\* ------------------------------------------------------------------- claim C21
UsernameUsed(tenant_id, username) ==
    \E m \in managers : m.tenant_id = tenant_id /\ m.username = username

\* C21: a super-admin's create request with a valid name, username and strong
\* password returns 201 and adds a manager with that username when the
\* username is unused in the caller's tenant, and returns 400 leaving the
\* managers unchanged when it is used; an update of an existing manager that
\* does not rename onto a taken username returns 200, any other update 400.
ManagerRoutesWork ==
    [][/\ (/\ resp'.op = "add_manager"
           /\ resp'.ran
           /\ resp'.arg[1] # "" /\ resp'.arg[2] # ""
           /\ validate_password_strength(resp'.arg[3]))
          => IF UsernameUsed(ContextTenantId(g'), resp'.arg[2])
             THEN resp'.status = 400 /\ managers' = managers
             ELSE /\ resp'.status = 201
                  /\ \E m \in managers' \ managers : m.username = resp'.arg[2]
       /\ (/\ resp'.op = "edit_manager"
           /\ resp'.ran
           /\ resp'.arg[3] = "" \/ validate_password_strength(resp'.arg[3]))
          => IF /\ UsernameUsed(ContextTenantId(g'), resp'.arg[1])
                /\ \/ resp'.arg[2] \in {"", resp'.arg[1]}
                   \/ ~UsernameUsed(ContextTenantId(g'), resp'.arg[2])
             THEN resp'.status = 200
             ELSE resp'.status = 400 /\ managers' = managers]_vars

\* ====================================================== store IP allow-list (routes/stores.py)
\* str(raw_use_current_ip).lower() for the values of the model; "" stands for
\* an absent field, whose string is "none".
Lower(raw) ==
    CASE raw = "" -> "none"
      [] raw = "True" -> "true"
      [] raw = "YES" -> "yes"
      [] OTHER -> raw

\* use_current_ip of edit_store (stores.py:179-180)
Truthy(raw) == Lower(raw) \in {"1", "true", "yes", "on"}

\* ip_to_set of edit_store (stores.py:198-202); allowed_ip is NULL when the body
\* has no such key, else <<value>>.  "" is the None handed to update_store.
ip_to_set(use_current_ip, allowed_ip, client_ip) ==
    IF Truthy(use_current_ip) THEN client_ip
    ELSE IF allowed_ip # NULL THEN allowed_ip[1]
    ELSE ""

\* PUT /api/stores/ ; "" stands for a field the body lacks.
edit_store(token, name, new_name, password, use_current_ip, allowed_ip, client_ip) ==
    LET a == require_auth({"manager"}, token)
        arg == <<name, new_name, use_current_ip, allowed_ip, client_ip>>
        R(status, touched) ==
            Respond("edit_store", token, TRUE, {"manager"}, status, TRUE, touched, arg, <<>>)
    IN
    \/ Denied("edit_store", token, {"manager"}, a)
    \/ /\ a.status = 200
       /\ g' = a.g
       /\ UNCHANGED <<tenants, managers, employees, next_id, now, tokens>>
       /\ LET tenant_id == ContextTenantId(a.g)
              found == {s \in stores : s.tenant_id = tenant_id /\ s.name = name}
              ip == ip_to_set(use_current_ip, allowed_ip, client_ip)
              keep == UNCHANGED <<inventory, inventory_history, eod, timeclock>>
          IN IF name = "" \/ (password # "" /\ ~validate_password_strength(password))
             THEN R(400, {}) /\ UNCHANGED stores /\ keep
             ELSE IF tenant_id = 0
             THEN R(500, {}) /\ UNCHANGED stores /\ keep
             ELSE IF found = {}
             THEN R(404, {}) /\ UNCHANGED stores /\ keep
             ELSE \E store \in found :
                  LET changed == [store EXCEPT
                          !.name = IF new_name # "" THEN new_name ELSE @,
                          !.password = IF password # "" THEN hash_password(password) ELSE @,
                          !.allowed_ip = IF ip # "" THEN ip ELSE @]
                      after == (stores \ {store}) \cup {changed}
                      inv2 == Renamed(inventory, tenant_id, name, new_name)
                      hist2 == Renamed(inventory_history, tenant_id, name, new_name)
                  IN IF ~(uq_tenant_store_name(after) /\ uq_tenant_store_username(after))
                     THEN R(500, {tenant_id}) /\ UNCHANGED stores /\ keep
                     ELSE /\ stores' = after
                          /\ IF new_name = "" \/ new_name = name
                             THEN R(200, {tenant_id}) /\ keep
                             ELSE IF ~(/\ uq_tenant_store_sku(inv2)
                                       /\ uq_tenant_store_snapshot_date(hist2))
                             THEN R(500, {tenant_id}) /\ keep
                             ELSE /\ inventory' = inv2
                                  /\ inventory_history' = hist2
                                  /\ eod' = Renamed(eod, tenant_id, name, new_name)
                                  /\ timeclock' = Renamed(timeclock, tenant_id, name, new_name)
                                  /\ R(200, {tenant_id})

\* ------------------------------------------------------ allow-list specification
ClientIps == {"10.0.0.1", "10.0.0.2"}
UseCurrentIpValues == {"", "True", "YES", "on", "false", "0"}
AllowedIpValues == {NULL, <<"">>, <<"10.0.0.1">>}

AllowedIpNext ==
    \/ \E p \in Passwords : manager_login("bob", p)
    \/ \E p \in Passwords, client_ip \in ClientIps : store_login("a2", p, client_ip)
    \/ \E token \in tokens \cup {NoToken}, name \in StoreNames, new_name \in {"", "B"},
          password \in {"", "Pw1!"}, use_current_ip \in UseCurrentIpValues,
          allowed_ip \in AllowedIpValues, client_ip \in ClientIps :
          edit_store(token, name, new_name, password, use_current_ip, allowed_ip, client_ip)

SpecAllowedIp == AuthInit /\ [][AllowedIpNext]_vars

\* ------------------------------------------------------------------- claim C22
\* The store an edit_store request with this argument names, after the request.
EditedStore(tenant_id, arg) ==
    {s \in stores' : s.tenant_id = tenant_id
                     /\ s.name = (IF arg[2] # "" THEN arg[2] ELSE arg[1])}

\* C22: after a successful store update, the store's allowed_ip is the caller's
\* IP when use_current_ip is truthy, else unset when the body carries an empty
\* allowed_ip, else exactly the non-empty allowed_ip of the body; and a store
\* login with correct credentials succeeds from any IP while allowed_ip is unset.
AllowedIpFollowsUpdate ==
    [][/\ (resp'.op = "edit_store" /\ resp'.status = 200)
          => \A s \in EditedStore(ContextTenantId(g'), resp'.arg) :
                IF Truthy(resp'.arg[3]) THEN s.allowed_ip = resp'.arg[5]
                ELSE IF resp'.arg[4] = NULL THEN TRUE
                ELSE s.allowed_ip = resp'.arg[4][1]
       /\ (resp'.op = "store_login"
           /\ \E s \in stores : /\ s.username = resp'.arg[1]
                                /\ s.allowed_ip = ""
                                /\ resp'.status # 401)
          => resp'.status = 200]_vars

\* ====================================================== concurrent storage charging
\* Two workers each handle one clock_in_face request of tenant 1 at a time
\* (timeclock.py:150-202).  Every request has its own SQLAlchemy session: the
\* Tenant object the first Tenant.query.get of the request loads stays in the
\* session's identity map, so the later gets of the same request return it
\* without a new SELECT, and `tenant.used_storage_bytes += n` writes the loaded
\* value plus n.  In this specification g holds one request context per worker.
Workers == {1, 2}
RaceTenant == 1
Idle == [pc |-> "idle", employee_id |-> 0, image |-> 0, image_size |-> 0,
         used_storage_bytes |-> 0]

\* What an atomic UPDATE ... SET used = used + n would commit instead.
atomic_total(w) ==
    LET t == CHOOSE t \in tenants : t.id = RaceTenant
    IN IF t.used_storage_bytes + g[w].image_size < 0 THEN 0
       ELSE t.used_storage_bytes + g[w].image_size

\* The total update_tenant_storage commits (models.py:500-504): computed from
\* the Tenant object of the worker's session.
session_total(w) ==
    IF g[w].used_storage_bytes + g[w].image_size < 0 THEN 0
    ELSE g[w].used_storage_bytes + g[w].image_size

RaceReply(w, status, reason) ==
    resp' = [NoResp EXCEPT !.op = "clock_in_face", !.guarded = TRUE, !.status = status,
                           !.ran = TRUE, !.touched = {RaceTenant}, !.at = now,
                           !.arg = <<w, g[w].employee_id, g[w].image>>, !.out = <<reason>>]

\* The request arrives, the face is recognised as employee_id, and the handler
\* looks for an open entry of today (timeclock.py:150-170) and compresses the
\* image (173).
RaceBegin(w, employee_id, face_image) ==
    /\ g[w].pc = "idle"
    /\ LET compressed_image == compress_image(face_image, 400)
           mine == [Idle EXCEPT !.employee_id = employee_id, !.image = compressed_image,
                                !.image_size = calculate_base64_size(compressed_image)]
       IN IF open_entry_today(RaceTenant, employee_id) # {}
          THEN /\ g' = [g EXCEPT ![w] = Idle]
               /\ resp' = [NoResp EXCEPT !.op = "clock_in_face", !.guarded = TRUE,
                                         !.status = 400, !.ran = TRUE, !.at = now,
                                         !.touched = {RaceTenant},
                                         !.arg = <<w, employee_id, compressed_image>>,
                                         !.out = <<"already">>]
          ELSE /\ g' = [g EXCEPT ![w] = [mine EXCEPT !.pc = "check"]]
               /\ UNCHANGED resp
    /\ UNCHANGED <<dbVars, now, tokens>>

\* check_storage_limit (storage.py:58-77, timeclock.py:182-184): loads the
\* Tenant into the session and tests the limit.
RaceCheck(w) ==
    /\ g[w].pc = "check"
    /\ \E t \in tenants :
          /\ t.id = RaceTenant
          /\ IF t.used_storage_bytes + g[w].image_size <= t.max_storage_bytes
             THEN /\ g' = [g EXCEPT ![w].pc = "update",
                                    ![w].used_storage_bytes = t.used_storage_bytes]
                  /\ UNCHANGED resp
             ELSE /\ g' = [g EXCEPT ![w] = Idle]
                  /\ RaceReply(w, 400, "storage")
    /\ UNCHANGED <<dbVars, now, tokens>>

\* update_storage_usage (storage.py:80-102, timeclock.py:187): the limit is
\* tested again on the session's Tenant object, then update_tenant_storage
\* commits the new total.
RaceUpdate(w) ==
    /\ g[w].pc = "update"
    /\ g' = [g EXCEPT ![w].pc = "insert"]
    /\ tenants' = {IF t.id = RaceTenant
                   THEN [t EXCEPT !.used_storage_bytes = session_total(w)] ELSE t : t \in tenants}
    /\ UNCHANGED <<managers, stores, employees, inventory, inventory_history, timeclock, eod,
                   next_id, now, tokens, resp>>

\* The entry is inserted and committed (timeclock.py:189-202).
RaceInsert(w) ==
    /\ g[w].pc = "insert"
    /\ next_id.timeclock <= MaxEntries
    /\ \E e \in employees :
          /\ e.id = g[w].employee_id
          /\ timeclock' = timeclock \cup
                {TimeClockRow(next_id.timeclock, RaceTenant, e.id, e.name, e.store_id,
                              g[w].image, NULL)}
    /\ next_id' = [next_id EXCEPT !.timeclock = @ + 1]
    /\ g' = [g EXCEPT ![w] = Idle]
    /\ RaceReply(w, 201, "created")
    /\ UNCHANGED <<tenants, managers, stores, employees, inventory, inventory_history, eod,
                   now, tokens>>

\* ------------------------------------------------------------ race specification
\* Tenant 1 has room for one compressed face image of 300 bytes or two of 180
\* bytes, two employees, and no entries.
RaceStart == plan_limits("basic") - 500
RaceImages == {240, 800}
RaceEmployees == {EmployeeRow(1, 1, "A", "Ann", <<0>>, 0),
                  EmployeeRow(3, 1, "A", "Cy", <<30>>, 0)}

RaceInit ==
    /\ tenants = {TenantRow(1, "one@example.com", "basic", "active", RaceStart),
                  TenantRow(2, "two@example.com", "basic", "active", 0)}
    /\ managers = BaseManagers
    /\ stores = BaseStores
    /\ employees = RaceEmployees
    /\ inventory = {}
    /\ inventory_history = {}
    /\ timeclock = {}
    /\ eod = {}
    /\ next_id = BaseIds
    /\ now = ClockStart
    /\ tokens = ClockTokens
    /\ g = [w \in Workers |-> Idle]
    /\ resp = NoResp

RaceNext ==
    \/ \E w \in Workers, e \in RaceEmployees, face_image \in RaceImages :
          RaceBegin(w, e.id, face_image)
    \/ \E w \in Workers : RaceCheck(w)
    \/ \E w \in Workers : RaceUpdate(w)
    \/ \E w \in Workers : RaceInsert(w)

SpecRace == RaceInit /\ [][RaceNext]_vars

\* ------------------------------------------------------------------- claim C23
\* C23: the storage counter is written by a read-check-then-write that nothing
\* makes atomic: every commit of a worker stores the total it read when its
\* limit check passed plus its own image size, whatever another worker has
\* committed in between; and a worker's check is admitted on the committed
\* total alone, also while another worker stands between its check and its write.
NonAtomicStorageUpdate ==
    [][\A w \in Workers :
          /\ (g[w].pc = "update" /\ g'[w].pc = "insert")
                => \A t \in tenants' :
                      t.id = RaceTenant
                         => t.used_storage_bytes = g[w].used_storage_bytes + g[w].image_size
          /\ (g[w].pc = "check" /\ g'[w].pc = "update")
                => \E t \in tenants :
                      /\ t.id = RaceTenant
                      /\ g'[w].used_storage_bytes = t.used_storage_bytes
                      /\ t.used_storage_bytes + g[w].image_size <= t.max_storage_bytes]_vars

\* Two clock-ins handled concurrently have both been applied, both passed the
\* limit check against the same total, and one increment is lost: the counter
\* rose by less than the images stored, which together exceed the room left.
LostIncrementWitness ==
    /\ \A w \in Workers : g[w].pc = "idle"
    /\ Cardinality({tc \in timeclock : tc.tenant_id = RaceTenant
                                       /\ tc.clock_in_face_image # 0}) = 2
    /\ \E t \in tenants :
          /\ t.id = RaceTenant
          /\ t.used_storage_bytes < RaceStart + calculate_database_storage(RaceTenant)
          /\ RaceStart + calculate_database_storage(RaceTenant) > t.max_storage_bytes

\* ====================================================== learning at the face clock
\* Probes of Ann, whose stored descriptor is 0: the same appearance, one at
\* distance 0.2 and one at distance 0.4, all below the match threshold 0.6.
LearnProbes == {0, 2, 4}

LearnNext ==
    \/ Tick(ClockSteps)
    \/ \E token \in ClockTokens \cup {NoToken}, d \in LearnProbes : clock_in_face(token, d, 0, "A")
    \/ \E token \in ClockTokens \cup {NoToken}, d \in LearnProbes : clock_out_face(token, d, 0, "A")

\* A store terminal keeps sending each probe: every recognised probe is tried
\* at clock-in and at clock-out.
LearnFairness ==
    \A d \in LearnProbes :
        /\ WF_vars(\E token \in ClockTokens : clock_in_face(token, d, 0, "A"))
        /\ WF_vars(\E token \in ClockTokens : clock_out_face(token, d, 0, "A"))

SpecLearn == ClockInit /\ [][LearnNext]_vars /\ LearnFairness

\* ------------------------------------------------------------------- claim C24
\* Some face clock request has appended its probe to an employee's stored list.
Learned == \E e \in employees : \E b \in BaseEmployees :
              e.id = b.id /\ e.face_descriptors # b.face_descriptors

\* C24: there are recognised probes (distance below 0.6) that a face clock request
\* appends to the matched employee's stored descriptors: with every such
\* probe tried again and again, some request eventually appends one.
SomeProbeIsLearned == <>Learned

\* The condition of the handlers admits no recognised probe: no face clock
\* request ever changes a stored descriptor list.
NoProbeIsLearned == [][\A e \in employees : \A f \in employees' :
                          e.id = f.id => f.face_descriptors = e.face_descriptors]_vars

\* ------------------------------------------------------------- claims C25 - C26
\* C25: a closed entry stays as it was closed: no step changes the clock_out or
\* the hours_worked of an entry whose clock_out is set, and a legacy clock-out
\* that names a closed entry of the caller's tenant is answered 400.
ClosedEntriesStayClosed ==
    [][/\ \A tc \in timeclock :
             tc.clock_out # NULL
                => \A after \in timeclock' :
                      after.id = tc.id => /\ after.clock_out = tc.clock_out
                                          /\ after.hours_worked = tc.hours_worked
       /\ (/\ resp'.op = "clock_out"
           /\ resp'.ran
           /\ \E tc \in timeclock : /\ tc.id = resp'.arg[1]
                                    /\ tc.tenant_id = ContextTenantId(g')
                                    /\ tc.clock_out # NULL)
          => resp'.status = 400]_vars


\* The face clock-out request just answered was recognised as resp'.out.employee_id.
FaceClockOutStep ==
    /\ resp'.op = "clock_out_face"
    /\ resp'.ran
    /\ resp'.out.employee_id # 0

OpenEntries(employee_id) ==
    {tc \in timeclock : tc.employee_id = employee_id /\ tc.clock_out = NULL}

\* The step closed entry tc now and left every other entry alone.
ClosedNow(tc) ==
    \E after \in timeclock' :
        /\ after.id = tc.id
        /\ after.clock_out = <<now>>
        /\ timeclock' = (timeclock \ {tc}) \cup {after}

\* The clock-out image, if any, fits the tenant's storage quota.
ClockOutImageFits(image) ==
    \/ image = 0
    \/ \E t \in tenants : /\ t.id = resp'.token.payload.tenant_id
                          /\ t.used_storage_bytes + calculate_base64_size(compress_image(image, 400))
                                <= t.max_storage_bytes

initialize_tenant_storage(tenant_id) ==
    /\ tenants' = {IF t.id = tenant_id
                   THEN [t EXCEPT !.used_storage_bytes = calculate_database_storage(tenant_id)]
                   ELSE t : t \in tenants}
    /\ TenantReply("initialize_tenant_storage", 200, {tenant_id}, <<tenant_id>>)
    /\ UNCHANGED <<managers, stores, employees, inventory, inventory_history, timeclock, eod,
                   next_id>>

\* No image is stored and every counter is 0, as initialize_tenant_storage
\* leaves it.
AccountingInit ==
    /\ tenants = BaseTenants
    /\ managers = BaseManagers
    /\ stores = BaseStores
    /\ employees = BaseEmployees
    /\ inventory = {}
    /\ inventory_history = {}
    /\ timeclock = {}
    /\ eod = {}
    /\ next_id = BaseIds
    /\ now = ClockStart
    /\ tokens = ClockTokens
    /\ g = NoContext
    /\ resp = NoResp

AccountingImages == {0, 800}

AccountingNext ==
    \/ \E tenant_id \in TenantIds : initialize_tenant_storage(tenant_id)
    \/ \E face_image \in AccountingImages : register_face(1, 4, face_image)
    \/ \E face_image \in AccountingImages : add_face_appearance("", 1, 30, face_image)
    \/ \E token \in ClockTokens \cup {NoToken}, face_image \in AccountingImages :
          clock_in_face(token, 0, face_image, "A")
    \/ \E token \in ClockTokens \cup {NoToken}, face_image \in AccountingImages :
          clock_out_face(token, 0, face_image, "A")
    \/ \E employee_id \in 1..2 : remove_employee(employee_id)
    \/ delete_store(1, "A")

SpecAccounting == AccountingInit /\ [][AccountingNext]_vars

\* ------------------------------------------------------------------- claim C27
\* C27: every tenant's used_storage_bytes equals the total decoded size of the
\* face images stored for it, the value calculate_database_storage returns, so
\* a recalculation never changes the counter.
CounterMatchesStoredImages ==
    \A t \in tenants : t.used_storage_bytes = calculate_database_storage(t.id)


\* ------------------------------------------------------------------- claim C28
\* C28: cancellation is terminal under webhook processing: no webhook step sets
\* the status of a tenant that is 'cancelled' back to 'active'.
CancellationIsTerminal ==
    [][resp'.op = "stripe_webhook"
          => \A t \in tenants : \A after \in tenants' :
                (t.id = after.id /\ t.status = "cancelled") => after.status # "active"]_vars


\* ====================================================== logins and the tenant's status
\* Tenant.password_hash is written once, by tenant_signup (tenants.py:177-186),
\* and no handler changes it: it is a function of the tenant.
TenantPassword(tenant_id) == "Tp" \o ToString(tenant_id) \o "!"
tenant_password_hash(tenant) == hash_password(TenantPassword(tenant.id))

\* POST /api/tenants/login ; the email arrives stripped and in lower case.
tenant_login(email, password) ==
    LET found == {t \in tenants : t.email = email}
        R(status, touched, out) ==
            Respond("tenant_login", NoToken, FALSE, {}, status, TRUE, touched, <<email>>, out)
    IN
    /\ g' = NoContext
    /\ UNCHANGED <<dbVars, now>>
    /\ IF email = "" \/ password = ""
       THEN R(400, {}, <<>>) /\ UNCHANGED tokens
       ELSE IF found = {}
       THEN R(401, {}, <<>>) /\ UNCHANGED tokens
       ELSE \E tenant \in found :
            LET super_admins == {m \in managers : m.tenant_id = tenant.id /\ m.is_super_admin}
            IN IF tenant.status # "active"
               THEN R(403, {}, <<>>) /\ UNCHANGED tokens
               ELSE IF ~verify_password(password, tenant_password_hash(tenant))
               THEN R(401, {}, <<>>) /\ UNCHANGED tokens
               ELSE IF super_admins = {}
               THEN R(404, {}, <<>>) /\ UNCHANGED tokens
               ELSE \E super_admin \in super_admins :
                    LET token == generate_token([role |-> "super-admin", tenant_id |-> tenant.id,
                                                 username |-> super_admin.username,
                                                 is_super_admin |-> TRUE])
                    IN /\ Issue(token)
                       /\ R(200, {tenant.id}, <<token, tenant.id>>)

\* ------------------------------------------------------------ login specification
\* Usernames are unique per tenant only: both tenants have a store "a", and a
\* super admin "bob" named after the prefix of the tenant's email, with
\* different passwords.  A tenant is active, suspended or cancelled, as the
\* webhooks left it.
TenantStatuses == {"active", "suspended", "cancelled"}
LoginIps == {"10.0.0.1"}

LoginInit ==
    /\ \E s1 \in TenantStatuses, s2 \in TenantStatuses :
          tenants = {TenantRow(1, "bob@a.com", "basic", s1, 0),
                     TenantRow(2, "bob@b.com", "basic", s2, 0)}
    /\ managers = {ManagerRow(1, 1, "bob", "Pw1!", TRUE),
                   ManagerRow(2, 2, "bob", "Pw2!", TRUE)}
    /\ stores = {StoreRow(1, 1, "A", "a", "Pw1!", "bob", ""),
                 StoreRow(2, 2, "A", "a", "Pw2!", "bob", "")}
    /\ employees = BaseEmployees
    /\ inventory = {}
    /\ inventory_history = {}
    /\ timeclock = {}
    /\ eod = {}
    /\ next_id = BaseIds
    /\ now = 0
    /\ tokens = {}
    /\ g = NoContext
    /\ resp = NoResp

LoginNext ==
    \/ \E u \in {"a", "ghost"}, p \in Passwords, client_ip \in LoginIps :
          store_login(u, p, client_ip)
    \/ \E u \in {"bob", "ghost"}, p \in Passwords : manager_login(u, p)
    \/ \E email \in {"bob@a.com", "bob@b.com", "ghost@a.com"},
          p \in {TenantPassword(1), TenantPassword(2)} : tenant_login(email, p)

SpecLogin == LoginInit /\ [][LoginNext]_vars

\* ------------------------------------------------------------- claims C29 - C30
LoginEndpoints == {"store_login", "manager_login", "tenant_login"}

\* C29: no login endpoint issues a token that carries the id of a tenant whose
\* status is not 'active': a login answered 200 names an active tenant.
LoginNeedsActiveTenant ==
    [][(resp'.op \in LoginEndpoints /\ resp'.status = 200)
          => \A t \in tenants :
                t.id = resp'.out[1].payload.tenant_id => t.status = "active"]_vars

\* The password whose hash a row stores.
OwnPassword(row) == row.password[2]

\* C30: for every store S and every manager M, a login with the row's own
\* username and password, from an allowed IP and with an active tenant, is
\* answered 200 with a token that carries the row's own tenant_id, also when
\* another tenant has a row with the same username.
LoginReachesOwnAccount ==
    [][/\ \A S \in stores : \A client_ip \in LoginIps :
             (/\ \E t \in tenants : t.id = S.tenant_id /\ t.status = "active"
              /\ S.allowed_ip \in {"", client_ip}
              /\ store_login(S.username, OwnPassword(S), client_ip))
                => /\ resp'.status = 200
                   /\ resp'.out[1].payload.tenant_id = S.tenant_id
       /\ \A M \in managers :
             (/\ \E t \in tenants : t.id = M.tenant_id /\ t.status = "active"
              /\ manager_login(M.username, OwnPassword(M)))
                => /\ resp'.status = 200
                   /\ resp'.out[1].payload.tenant_id = M.tenant_id]_vars

====
